---------------------------- MODULE Spec2Model ----------------------------
(***************************************************************************)
(* A state-machine model of asciiplay: the decoder's two bounded queues    *)
(* (decoder.cpp), the five pipeline workers and the main thread            *)
(* (pipeline.cpp), the audio clock (audio_player.cpp) and the renderer's   *)
(* shared configuration (ascii_renderer.cpp).                              *)
(*                                                                         *)
(* Threads are interleaved one step at a time.  A std::condition_variable  *)
(* is a set of parked threads; cv.wait(lock, pred) is the loop             *)
(* "while (!pred) wait(lock)": the predicate is read with the mutex held,  *)
(* a thread that found it false still holds the mutex until it parks, and  *)
(* a notify that arrives before it parked is lost.  A lock that only       *)
(* brackets one access is taken and released inside the step.  Times are   *)
(* integers in milliseconds.                                               *)
(***************************************************************************)
EXTENDS Integers, Sequences, FiniteSets, TLC

\* ------------------------------------------------------------ bounds
\* Largest number of video frames of an input of the whole pipeline.
MaxVideo == 2
\* Largest numbers of video and audio frames of an input of the sync loop.
SyncVideo == 2
SyncAudio == 2
\* Numbers of video and audio frames of an input of the pause loop.
PauseVideo == 2
PauseAudio == 2
PauseExport == 1
\* Number of video frames of the input whose order is followed.
OrderVideo == 3
\* Largest number of video frames of an exported input that ends with the
\* quit key, and number of frames of one that is exported to its end.
ExportVideo == 2
EncodeVideo == 2
\* Numbers of video frames of the live input, of video frames of the exported
\* input and of audio frames of the input with sound only, of a run that the
\* quit key ends.
StopVideo == 2
StopExport == 1
StopSound == 1
\* Numbers of video and audio frames of the input played at each volume.
VolumeVideo == 2
VolumeAudio == 1
\* Numbers of video and audio frames of the input of an initialization.
InitVideo == 2
InitAudio == 2
\* Largest number of video frames of an input played under signals.
SignalVideo == 2
\* Lengths of the inputs that fill a decoder queue: one frame more than the
\* video queue and than the audio queue hold; and of the short mixed inputs.
QueueVideo == 9
QueueAudio == 33
QueueMixed == 1
\* Length of the input of the video path: more frames than three queues of
\* kMaxVideoQueue frames and three workers' hands hold.
PathVideo == 28
\* Number of video frames of the input whose frames are followed through
\* render to the presenter.
FramesVideo == 2
\* Steps between the darkest and the brightest level of a colour channel of
\* the colours looked up in the palette.
ColourSteps == 3
\* Largest grid of the scenes render is applied to.
SceneCols == 2
SceneRows == 2
\* The grid of the scenes that show the dither matrix.
DitherCols == 4
DitherRows == 4
\* Numbers of video and audio frames of the paced input, and its --fps.
PaceVideo == 2
PaceAudio == 2
PaceFps == 100
\* Numbers of video and audio frames of the input whose frames are counted.
AccountVideo == 2
AccountAudio == 2
\* Number of video frames of the exported input whose frames are blitted,
\* and the largest grid of --grid and of --export-grid.
BlitVideo == 1
BlitCols == 2
BlitRows == 2
\* Number of video frames of the input whose exporter is closed.
CloseVideo == 1
\* Presentation time between two video frames of the input, in ms.
FrameMs == 40
\* Sound carried by one decoded AudioFrame, in ms.
AudioMs == 30
\* Sound one device callback asks for, in ms.
CallbackMs == 60
\* Wall-clock readings are cut off here (ms since the presenter started).
MaxWallMs == 40
\* Spacing of the wall-clock readings the model draws, in ms.
WallTickMs == 20
\* The renderer's grid, and the keys the control worker reads during a render.
RenderCols == 2
RenderRows == 1
MaxKeys == 1
\* The keys the control worker reads when only the keys are followed.
KeyPresses == 3
\* --volume as given on the command line, percent.
ConfiguredVolume == 80

\* ------------------------------------------------- program constants
kMaxVideoQueue == 8
kMaxAudioQueue == 32
\* pipeline.cpp:158 "diff > 0.01" and :160 "diff < -0.05", in ms.
SleepAboveMs == 10
DropBelowMs == 50
\* AudioConfig::volume's default, percent (audio_player.hpp:18).
DefaultVolume == 100
\* audio_.start(48000, 2, ...) (pipeline.cpp:44); the decoder resamples to
\* the same rate and channels (decoder.cpp:208-209).
SampleRate == 48000
Channels == 2

\* A minimum that takes its second argument (a faulty variant, to compare
\* with).
MinSecond(a, b) == b
Min(a, b) == IF a < b THEN a ELSE b
Max(a, b) == IF a > b THEN a ELSE b

Threads == {"main", "dl", "pd", "at", "rt", "au", "ct"}

VARIABLES
    \* the input and the configuration Pipeline::initialize stored
    nVideo,          \* video frames the input holds
    nAudio,          \* audio frames the input holds
    audioEnabled,    \* config_.audio.enabled
    targetFps,       \* config_.targetFps (0: pace by pts)
    exportEnabled,   \* config_.exportEnabled
    \* Decoder
    dRunning,        \* Decoder::running_
    dFinished,       \* Decoder::finished_
    dJoinable,       \* Decoder::decodeThread_.joinable()
    dVQ,             \* Decoder::videoQueue_
    dAQ,             \* Decoder::audioQueue_
    vRead,           \* video frames decoded so far
    aRead,           \* audio frames decoded so far
    cvDV,            \* threads parked on Decoder::videoCv_
    cvDA,            \* threads parked on Decoder::audioCv_
    \* Pipeline
    running,         \* Pipeline::running_
    paused,          \* Pipeline::paused_
    pVQ,             \* Pipeline::videoQueue_
    pAQ,             \* Pipeline::asciiQueue_
    cvPV,            \* threads parked on Pipeline::videoCv_
    cvPA,            \* threads parked on Pipeline::asciiCv_
    renderedFrames,  \* Pipeline::renderedFrames_
    droppedFrames,   \* Pipeline::droppedFrames_
    pc,              \* each thread's position
    hand,            \* the frame each thread holds (a local variable)
    \* presenter
    rtDiff,          \* the presenter's last measured diff, ms
    wall,            \* last steady_clock reading, ms since clockStart
    presented,       \* frames handed to TerminalSink::present, in order
    termInit,        \* TerminalSink::initialized_
    \* AudioPlayer
    ring,            \* AudioPlayer::queue_.size(), interleaved samples
    samplesPlayed,   \* AudioPlayer::samplesPlayed_, sample frames
    volume,          \* AudioPlayer::config_.volume (percent)
    cfgVolume,       \* Pipeline::config_.audio.volume (percent)
    audioStarted,    \* AudioPlayer::deviceStarted_
    \* Exporter
    expOpened,       \* Exporter::opened_
    frameIndex,      \* Exporter::frameIndex_
    encoder,         \* frames sent to codecCtx_ whose packets it still holds
    written,         \* packets written to fmtCtx_: the frame and its pts
    exportErrors,    \* "Export error" lines on stderr
    expConfig,       \* Pipeline::config_.exporter: the grid and the font
    \* main.cpp
    gInterrupted,    \* the flag handleSignal sets
    \* AsciiRenderer
    rConfig,         \* AsciiRenderer::config_
    rSnap,           \* render's local cfg, the snapshot
    picture,         \* width, height and data of the input's video frames
    rCells,          \* ascii.cells as far as render has filled them
    rOut,            \* ascii.terminalString
    ascii,           \* render's local ascii: cols, rows, halfBlock and pts
    \* the environment
    faults,          \* the components whose initialization fails
    \* history, no state of the program
    submitted,       \* the calls of Exporter::writeFrame and what they returned
    delivered,       \* samples the device callbacks copied from the ring
    blitOutside,     \* indices blitAscii has written outside its buffer
    res,             \* Exporter's pointers fmtCtx_ .. yuvFrame_: null, live, dangling
    released,        \* times each of these resources has been released
    usedFreed,       \* resources dereferenced after their release
    sincePause,      \* frames counted while paused_, since it last became true
    popped,          \* frames the presenter has taken from asciiQueue_
    nKeys,           \* renderer keys the standard input holds
    keys,            \* renderer keys the control worker has read
    keyLog           \* those keys, each with config_ as it was before

vars == <<nVideo, nAudio, audioEnabled, targetFps, exportEnabled, dRunning,
          dFinished, dJoinable, dVQ, dAQ, vRead, aRead, cvDV, cvDA, running,
          paused, pVQ, pAQ, cvPV, cvPA, renderedFrames, droppedFrames, pc,
          hand, rtDiff, wall, presented, termInit, ring, samplesPlayed,
          volume, cfgVolume, audioStarted, expOpened,
          frameIndex, encoder, written, exportErrors, expConfig, blitOutside,
          res, released, usedFreed,
          gInterrupted, submitted, delivered,
          faults,
          rConfig, rSnap, picture, rCells, rOut, ascii,
          sincePause, popped, nKeys, keys, keyLog>>

NoFrame == [id |-> -1, pts |-> 0]

\* The i-th video frame of the input (decoder.cpp:191-197: pts from the
\* stream's timestamps).
VideoFrame(i) == [id |-> i, pts |-> i * FrameMs]
AudioFrame(i) == [id |-> i, pts |-> i * AudioMs]

\* The interleaved samples one AudioFrame carries (af.samples.size()), and
\* the frameCount of one device callback.
FrameSamples == AudioMs * (SampleRate \div 1000) * Channels
CallbackFrames == CallbackMs * (SampleRate \div 1000)


\* ------------------------------------------------ mutexes and waits
\* A mutex is held across steps only by a thread that found its wait
\* predicate false and has not parked yet (std::condition_variable::wait
\* releases it on parking).
DVideoMutexFree == pc["dl"] # "pushV_block" /\ pc["pd"] # "pop_block"
DAudioMutexFree == pc["dl"] # "pushA_block" /\ pc["au"] # "pop_block"
PVideoMutexFree == pc["at"] # "wait_block"
PAsciiMutexFree == pc["rt"] # "wait_block"

\* notify_one: one parked thread leaves the set (none if it is empty).
NotifyOne(cv) == IF cv = {} THEN {cv} ELSE {cv \ {t} : t \in cv}

\* A thread enters (or re-enters, once notified) the predicate check of a
\* wait on cv.
AtWait(t, entry, parked, cv) ==
    pc[t] = entry \/ (pc[t] = parked /\ t \notin cv)

\* ------------------------------------------------------------ Decoder
\* A push predicate that lets one frame too many in (a faulty variant, to
\* compare with).
PushVideoPredBroken == Len(dVQ) <= kMaxVideoQueue \/ ~dRunning

\* The wait predicates of decoder.cpp:131, :142, :153, :163.
PushVideoPred == Len(dVQ) < kMaxVideoQueue \/ ~dRunning
PushAudioPred == Len(dAQ) < kMaxAudioQueue \/ ~dRunning
PopVideoPred == dVQ # <<>> \/ dFinished
PopAudioPred == dAQ # <<>> \/ dFinished

\* A front that takes the newest frame (a faulty variant, to compare with).
QueueFrontLast(q) == q[Len(q)]

\* std::queue::front of a non-empty queue.
QueueFront(q) == Head(q)

\* std::thread::join on the decode thread returns once decodeLoop returned.
DecodeThreadJoined == pc["dl"] = "done"

\* Decoder::decodeLoop, one turn of "while (running_)": av_read_frame yields the
\* next packet (a video or an audio frame) or fails at the end of the input.
decodeLoop_Read ==
    /\ pc["dl"] = "loop"
    /\ IF ~dRunning
       THEN /\ pc' = [pc EXCEPT !["dl"] = "exit"]
            /\ UNCHANGED <<vRead, aRead, hand>>
       ELSE \/ /\ vRead < nVideo
               /\ vRead' = vRead + 1
               /\ hand' = [hand EXCEPT !["dl"] = VideoFrame(vRead)]
               /\ pc' = [pc EXCEPT !["dl"] = "pushV"]
               /\ UNCHANGED aRead
            \/ /\ aRead < nAudio
               /\ aRead' = aRead + 1
               /\ hand' = [hand EXCEPT !["dl"] = AudioFrame(aRead)]
               /\ pc' = [pc EXCEPT !["dl"] = "pushA"]
               /\ UNCHANGED vRead
            \/ /\ vRead = nVideo /\ aRead = nAudio
               /\ pc' = [pc EXCEPT !["dl"] = "exit"]
               /\ UNCHANGED <<vRead, aRead, hand>>
    /\ UNCHANGED <<nVideo, nAudio, audioEnabled, targetFps, exportEnabled,
                 dRunning, dFinished, dJoinable, dVQ, dAQ, cvDV, cvDA,
                 running, paused, pVQ, pAQ, cvPV, cvPA, renderedFrames,
                 droppedFrames, rtDiff, wall, presented, termInit, ring,
                 samplesPlayed, volume, cfgVolume, audioStarted, expOpened,
                 frameIndex, encoder, written, exportErrors, expConfig,
                 blitOutside, res, released, usedFreed, gInterrupted,
                 submitted, delivered, faults, sincePause, popped, rConfig,
                 rSnap, picture, rCells, rOut, ascii, nKeys, keys, keyLog>>

\* Decoder::pushVideoFrame: lock, test the wait predicate; if it holds return
\* without pushing when !running_, else push, unlock and videoCv_.notify_one().
pushVideoFrame ==
    /\ AtWait("dl", "pushV", "pushV_wait", cvDV)
    /\ DVideoMutexFree
    /\ IF PushVideoPred
       THEN /\ IF ~dRunning
               THEN UNCHANGED <<dVQ, cvDV>>
               ELSE /\ dVQ' = Append(dVQ, hand["dl"])
                    /\ cvDV' \in NotifyOne(cvDV)
            /\ hand' = [hand EXCEPT !["dl"] = NoFrame]
            /\ pc' = [pc EXCEPT !["dl"] = "loop"]
       ELSE /\ pc' = [pc EXCEPT !["dl"] = "pushV_block"]
            /\ UNCHANGED <<dVQ, cvDV, hand>>
    /\ UNCHANGED <<nVideo, nAudio, audioEnabled, targetFps, exportEnabled,
                 dRunning, dFinished, dJoinable, dAQ, vRead, aRead, cvDA,
                 running, paused, pVQ, pAQ, cvPV, cvPA, renderedFrames,
                 droppedFrames, rtDiff, wall, presented, termInit, ring,
                 samplesPlayed, volume, cfgVolume, audioStarted, expOpened,
                 frameIndex, encoder, written, exportErrors, expConfig,
                 blitOutside, res, released, usedFreed, gInterrupted,
                 submitted, delivered, faults, sincePause, popped, rConfig,
                 rSnap, picture, rCells, rOut, ascii, nKeys, keys, keyLog>>

\* The wait of pushVideoFrame releases the mutex and parks on videoCv_.
pushVideoFrame_Park ==
    /\ pc["dl"] = "pushV_block"
    /\ cvDV' = cvDV \cup {"dl"}
    /\ pc' = [pc EXCEPT !["dl"] = "pushV_wait"]
    /\ UNCHANGED <<nVideo, nAudio, audioEnabled, targetFps, exportEnabled,
                 dRunning, dFinished, dJoinable, dVQ, dAQ, vRead, aRead,
                 cvDA, running, paused, pVQ, pAQ, cvPV, cvPA,
                 renderedFrames, droppedFrames, hand, rtDiff, wall,
                 presented, termInit, ring, samplesPlayed, volume,
                 cfgVolume, audioStarted, expOpened, frameIndex, encoder,
                 written, exportErrors, expConfig, blitOutside, res,
                 released, usedFreed, gInterrupted, submitted, delivered,
                 faults, sincePause, popped, rConfig, rSnap, picture,
                 rCells, rOut, ascii, nKeys, keys, keyLog>>

\* Decoder::pushAudioFrame, as pushVideoFrame on the audio queue.
pushAudioFrame ==
    /\ AtWait("dl", "pushA", "pushA_wait", cvDA)
    /\ DAudioMutexFree
    /\ IF PushAudioPred
       THEN /\ IF ~dRunning
               THEN UNCHANGED <<dAQ, cvDA>>
               ELSE /\ dAQ' = Append(dAQ, hand["dl"])
                    /\ cvDA' \in NotifyOne(cvDA)
            /\ hand' = [hand EXCEPT !["dl"] = NoFrame]
            /\ pc' = [pc EXCEPT !["dl"] = "loop"]
       ELSE /\ pc' = [pc EXCEPT !["dl"] = "pushA_block"]
            /\ UNCHANGED <<dAQ, cvDA, hand>>
    /\ UNCHANGED <<nVideo, nAudio, audioEnabled, targetFps, exportEnabled,
                 dRunning, dFinished, dJoinable, dVQ, vRead, aRead, cvDV,
                 running, paused, pVQ, pAQ, cvPV, cvPA, renderedFrames,
                 droppedFrames, rtDiff, wall, presented, termInit, ring,
                 samplesPlayed, volume, cfgVolume, audioStarted, expOpened,
                 frameIndex, encoder, written, exportErrors, expConfig,
                 blitOutside, res, released, usedFreed, gInterrupted,
                 submitted, delivered, faults, sincePause, popped, rConfig,
                 rSnap, picture, rCells, rOut, ascii, nKeys, keys, keyLog>>

\* The wait of pushAudioFrame releases the mutex and parks on audioCv_.
pushAudioFrame_Park ==
    /\ pc["dl"] = "pushA_block"
    /\ cvDA' = cvDA \cup {"dl"}
    /\ pc' = [pc EXCEPT !["dl"] = "pushA_wait"]
    /\ UNCHANGED <<nVideo, nAudio, audioEnabled, targetFps, exportEnabled,
                 dRunning, dFinished, dJoinable, dVQ, dAQ, vRead, aRead,
                 cvDV, running, paused, pVQ, pAQ, cvPV, cvPA,
                 renderedFrames, droppedFrames, hand, rtDiff, wall,
                 presented, termInit, ring, samplesPlayed, volume,
                 cfgVolume, audioStarted, expOpened, frameIndex, encoder,
                 written, exportErrors, expConfig, blitOutside, res,
                 released, usedFreed, gInterrupted, submitted, delivered,
                 faults, sincePause, popped, rConfig, rSnap, picture,
                 rCells, rOut, ascii, nKeys, keys, keyLog>>

\* decodeLoop after its loop: running_ = false; finished_ = true, written
\* without either mutex.
decodeLoop_Exit ==
    /\ pc["dl"] = "exit"
    /\ dRunning' = FALSE
    /\ dFinished' = TRUE
    /\ pc' = [pc EXCEPT !["dl"] = "exit_nv"]
    /\ UNCHANGED <<nVideo, nAudio, audioEnabled, targetFps, exportEnabled,
                 dJoinable, dVQ, dAQ, vRead, aRead, cvDV, cvDA, running,
                 paused, pVQ, pAQ, cvPV, cvPA, renderedFrames,
                 droppedFrames, hand, rtDiff, wall, presented, termInit,
                 ring, samplesPlayed, volume, cfgVolume, audioStarted,
                 expOpened, frameIndex, encoder, written, exportErrors,
                 expConfig, blitOutside, res, released, usedFreed,
                 gInterrupted, submitted, delivered, faults, sincePause,
                 popped, rConfig, rSnap, picture, rCells, rOut, ascii,
                 nKeys, keys, keyLog>>

\* decodeLoop: videoCv_.notify_all().
decodeLoop_NotifyV ==
    /\ pc["dl"] = "exit_nv"
    /\ cvDV' = {}
    /\ pc' = [pc EXCEPT !["dl"] = "exit_na"]
    /\ UNCHANGED <<nVideo, nAudio, audioEnabled, targetFps, exportEnabled,
                 dRunning, dFinished, dJoinable, dVQ, dAQ, vRead, aRead,
                 cvDA, running, paused, pVQ, pAQ, cvPV, cvPA,
                 renderedFrames, droppedFrames, hand, rtDiff, wall,
                 presented, termInit, ring, samplesPlayed, volume,
                 cfgVolume, audioStarted, expOpened, frameIndex, encoder,
                 written, exportErrors, expConfig, blitOutside, res,
                 released, usedFreed, gInterrupted, submitted, delivered,
                 faults, sincePause, popped, rConfig, rSnap, picture,
                 rCells, rOut, ascii, nKeys, keys, keyLog>>

\* decodeLoop: audioCv_.notify_all(), then the thread ends.
decodeLoop_NotifyA ==
    /\ pc["dl"] = "exit_na"
    /\ cvDA' = {}
    /\ pc' = [pc EXCEPT !["dl"] = "done"]
    /\ UNCHANGED <<nVideo, nAudio, audioEnabled, targetFps, exportEnabled,
                 dRunning, dFinished, dJoinable, dVQ, dAQ, vRead, aRead,
                 cvDV, running, paused, pVQ, pAQ, cvPV, cvPA,
                 renderedFrames, droppedFrames, hand, rtDiff, wall,
                 presented, termInit, ring, samplesPlayed, volume,
                 cfgVolume, audioStarted, expOpened, frameIndex, encoder,
                 written, exportErrors, expConfig, blitOutside, res,
                 released, usedFreed, gInterrupted, submitted, delivered,
                 faults, sincePause, popped, rConfig, rSnap, picture,
                 rCells, rOut, ascii, nKeys, keys, keyLog>>

\* Decoder::stop is called by the control worker (quit key) and by the main
\* thread (Pipeline::stop); where each continues after it.
AfterDecoderStop(t) == IF t = "ct" THEN "q_nv" ELSE "st_nv"

\* Decoder::stop: running_ = false (no mutex, no notify).
stop_Running(t) ==
    /\ pc[t] = "ds_run"
    /\ dRunning' = FALSE
    /\ pc' = [pc EXCEPT ![t] = "ds_join"]
    /\ UNCHANGED <<nVideo, nAudio, audioEnabled, targetFps, exportEnabled,
                 dFinished, dJoinable, dVQ, dAQ, vRead, aRead, cvDV, cvDA,
                 running, paused, pVQ, pAQ, cvPV, cvPA, renderedFrames,
                 droppedFrames, hand, rtDiff, wall, presented, termInit,
                 ring, samplesPlayed, volume, cfgVolume, audioStarted,
                 expOpened, frameIndex, encoder, written, exportErrors,
                 expConfig, blitOutside, res, released, usedFreed,
                 gInterrupted, submitted, delivered, faults, sincePause,
                 popped, rConfig, rSnap, picture, rCells, rOut, ascii,
                 nKeys, keys, keyLog>>

\* Decoder::stop: if (decodeThread_.joinable()) decodeThread_.join().
stop_Join(t) ==
    /\ pc[t] = "ds_join"
    /\ IF dJoinable
       THEN /\ DecodeThreadJoined
            /\ dJoinable' = FALSE
       ELSE UNCHANGED dJoinable
    /\ pc' = [pc EXCEPT ![t] = "ds_fin"]
    /\ UNCHANGED <<nVideo, nAudio, audioEnabled, targetFps, exportEnabled,
                 dRunning, dFinished, dVQ, dAQ, vRead, aRead, cvDV, cvDA,
                 running, paused, pVQ, pAQ, cvPV, cvPA, renderedFrames,
                 droppedFrames, hand, rtDiff, wall, presented, termInit,
                 ring, samplesPlayed, volume, cfgVolume, audioStarted,
                 expOpened, frameIndex, encoder, written, exportErrors,
                 expConfig, blitOutside, res, released, usedFreed,
                 gInterrupted, submitted, delivered, faults, sincePause,
                 popped, rConfig, rSnap, picture, rCells, rOut, ascii,
                 nKeys, keys, keyLog>>

\* Decoder::stop: finished_ = true under videoMutex_.
stop_Finished(t) ==
    /\ pc[t] = "ds_fin"
    /\ DVideoMutexFree
    /\ dFinished' = TRUE
    /\ pc' = [pc EXCEPT ![t] = "ds_nv"]
    /\ UNCHANGED <<nVideo, nAudio, audioEnabled, targetFps, exportEnabled,
                 dRunning, dJoinable, dVQ, dAQ, vRead, aRead, cvDV, cvDA,
                 running, paused, pVQ, pAQ, cvPV, cvPA, renderedFrames,
                 droppedFrames, hand, rtDiff, wall, presented, termInit,
                 ring, samplesPlayed, volume, cfgVolume, audioStarted,
                 expOpened, frameIndex, encoder, written, exportErrors,
                 expConfig, blitOutside, res, released, usedFreed,
                 gInterrupted, submitted, delivered, faults, sincePause,
                 popped, rConfig, rSnap, picture, rCells, rOut, ascii,
                 nKeys, keys, keyLog>>

\* Decoder::stop: videoCv_.notify_all().
stop_NotifyV(t) ==
    /\ pc[t] = "ds_nv"
    /\ cvDV' = {}
    /\ pc' = [pc EXCEPT ![t] = "ds_na"]
    /\ UNCHANGED <<nVideo, nAudio, audioEnabled, targetFps, exportEnabled,
                 dRunning, dFinished, dJoinable, dVQ, dAQ, vRead, aRead,
                 cvDA, running, paused, pVQ, pAQ, cvPV, cvPA,
                 renderedFrames, droppedFrames, hand, rtDiff, wall,
                 presented, termInit, ring, samplesPlayed, volume,
                 cfgVolume, audioStarted, expOpened, frameIndex, encoder,
                 written, exportErrors, expConfig, blitOutside, res,
                 released, usedFreed, gInterrupted, submitted, delivered,
                 faults, sincePause, popped, rConfig, rSnap, picture,
                 rCells, rOut, ascii, nKeys, keys, keyLog>>

\* Decoder::stop: audioCv_.notify_all(), and stop returns.
stop_NotifyA(t) ==
    /\ pc[t] = "ds_na"
    /\ cvDA' = {}
    /\ pc' = [pc EXCEPT ![t] = AfterDecoderStop(t)]
    /\ UNCHANGED <<nVideo, nAudio, audioEnabled, targetFps, exportEnabled,
                 dRunning, dFinished, dJoinable, dVQ, dAQ, vRead, aRead,
                 cvDV, running, paused, pVQ, pAQ, cvPV, cvPA,
                 renderedFrames, droppedFrames, hand, rtDiff, wall,
                 presented, termInit, ring, samplesPlayed, volume,
                 cfgVolume, audioStarted, expOpened, frameIndex, encoder,
                 written, exportErrors, expConfig, blitOutside, res,
                 released, usedFreed, gInterrupted, submitted, delivered,
                 faults, sincePause, popped, rConfig, rSnap, picture,
                 rCells, rOut, ascii, nKeys, keys, keyLog>>

\* Pipeline::decodeThread, "while (running_)" holds, calling
\* Decoder::popVideoFrame: lock, test the wait predicate; if it holds, return false
\* on an empty queue (decodeThread breaks, videoCv_.notify_all(), ends), else pop
\* the front.
popVideoFrame ==
    /\ (pc["pd"] = "loop" /\ running) \/ AtWait("pd", "pop", "pop_wait", cvDV)
    /\ DVideoMutexFree
    /\ IF PopVideoPred
       THEN IF dVQ = <<>>
            THEN /\ pc' = [pc EXCEPT !["pd"] = "done"]
                 /\ cvPV' = {}
                 /\ UNCHANGED <<dVQ, hand>>
            ELSE /\ hand' = [hand EXCEPT !["pd"] = QueueFront(dVQ)]
                 /\ dVQ' = Tail(dVQ)
                 /\ pc' = [pc EXCEPT !["pd"] = "push"]
                 /\ UNCHANGED cvPV
       ELSE /\ pc' = [pc EXCEPT !["pd"] = "pop_block"]
            /\ UNCHANGED <<dVQ, hand, cvPV>>
    /\ UNCHANGED <<nVideo, nAudio, audioEnabled, targetFps, exportEnabled,
                 dRunning, dFinished, dJoinable, dAQ, vRead, aRead, cvDV,
                 cvDA, running, paused, pVQ, pAQ, cvPA, renderedFrames,
                 droppedFrames, rtDiff, wall, presented, termInit, ring,
                 samplesPlayed, volume, cfgVolume, audioStarted, expOpened,
                 frameIndex, encoder, written, exportErrors, expConfig,
                 blitOutside, res, released, usedFreed, gInterrupted,
                 submitted, delivered, faults, sincePause, popped, rConfig,
                 rSnap, picture, rCells, rOut, ascii, nKeys, keys, keyLog>>

\* The wait of popVideoFrame releases the mutex and parks on videoCv_.
popVideoFrame_Park ==
    /\ pc["pd"] = "pop_block"
    /\ cvDV' = cvDV \cup {"pd"}
    /\ pc' = [pc EXCEPT !["pd"] = "pop_wait"]
    /\ UNCHANGED <<nVideo, nAudio, audioEnabled, targetFps, exportEnabled,
                 dRunning, dFinished, dJoinable, dVQ, dAQ, vRead, aRead,
                 cvDA, running, paused, pVQ, pAQ, cvPV, cvPA,
                 renderedFrames, droppedFrames, hand, rtDiff, wall,
                 presented, termInit, ring, samplesPlayed, volume,
                 cfgVolume, audioStarted, expOpened, frameIndex, encoder,
                 written, exportErrors, expConfig, blitOutside, res,
                 released, usedFreed, gInterrupted, submitted, delivered,
                 faults, sincePause, popped, rConfig, rSnap, picture,
                 rCells, rOut, ascii, nKeys, keys, keyLog>>

\* Pipeline::audioThread, "while (running_)" holds, calling
\* Decoder::popAudioFrame: as popVideoFrame on the audio queue, under audioMutex_;
\* on false audioThread breaks and ends.
popAudioFrame ==
    /\ (pc["au"] = "loop" /\ running) \/ AtWait("au", "pop", "pop_wait", cvDA)
    /\ DAudioMutexFree
    /\ IF PopAudioPred
       THEN IF dAQ = <<>>
            THEN /\ pc' = [pc EXCEPT !["au"] = "done"]
                 /\ UNCHANGED <<dAQ, hand>>
            ELSE /\ hand' = [hand EXCEPT !["au"] = QueueFront(dAQ)]
                 /\ dAQ' = Tail(dAQ)
                 /\ pc' = [pc EXCEPT !["au"] = "enqueue"]
       ELSE /\ pc' = [pc EXCEPT !["au"] = "pop_block"]
            /\ UNCHANGED <<dAQ, hand>>
    /\ UNCHANGED <<nVideo, nAudio, audioEnabled, targetFps, exportEnabled,
                 dRunning, dFinished, dJoinable, dVQ, vRead, aRead, cvDV,
                 cvDA, running, paused, pVQ, pAQ, cvPV, cvPA,
                 renderedFrames, droppedFrames, rtDiff, wall, presented,
                 termInit, ring, samplesPlayed, volume, cfgVolume,
                 audioStarted, expOpened, frameIndex, encoder, written,
                 exportErrors, expConfig, blitOutside, res, released,
                 usedFreed, gInterrupted, submitted, delivered, faults,
                 sincePause, popped, rConfig, rSnap, picture, rCells, rOut,
                 ascii, nKeys, keys, keyLog>>

\* The wait of popAudioFrame releases the mutex and parks on audioCv_.
popAudioFrame_Park ==
    /\ pc["au"] = "pop_block"
    /\ cvDA' = cvDA \cup {"au"}
    /\ pc' = [pc EXCEPT !["au"] = "pop_wait"]
    /\ UNCHANGED <<nVideo, nAudio, audioEnabled, targetFps, exportEnabled,
                 dRunning, dFinished, dJoinable, dVQ, dAQ, vRead, aRead,
                 cvDV, running, paused, pVQ, pAQ, cvPV, cvPA,
                 renderedFrames, droppedFrames, hand, rtDiff, wall,
                 presented, termInit, ring, samplesPlayed, volume,
                 cfgVolume, audioStarted, expOpened, frameIndex, encoder,
                 written, exportErrors, expConfig, blitOutside, res,
                 released, usedFreed, gInterrupted, submitted, delivered,
                 faults, sincePause, popped, rConfig, rSnap, picture,
                 rCells, rOut, ascii, nKeys, keys, keyLog>>

\* ----------------------------------------------------------- Pipeline
\* AsciiRenderer::render as the pipeline sees it: the AsciiFrame of a
\* VideoFrame carries its pts (ascii_renderer.cpp:150). Before it, a render
\* that leaves AsciiFrame::pts at its default (a faulty variant, to compare
\* with).
RenderFrameNoPts(f) == [id |-> f.id, pts |-> 0]
RenderFrame(f) == [id |-> f.id, pts |-> f.pts]

\* decodeThread: videoQueue_.push under videoMutex_, then
\* videoCv_.notify_one().
decodeThread_Push ==
    /\ pc["pd"] = "push"
    /\ PVideoMutexFree
    /\ pVQ' = Append(pVQ, hand["pd"])
    /\ cvPV' \in NotifyOne(cvPV)
    /\ hand' = [hand EXCEPT !["pd"] = NoFrame]
    /\ pc' = [pc EXCEPT !["pd"] = "loop"]
    /\ UNCHANGED <<nVideo, nAudio, audioEnabled, targetFps, exportEnabled,
                 dRunning, dFinished, dJoinable, dVQ, dAQ, vRead, aRead,
                 cvDV, cvDA, running, paused, pAQ, cvPA, renderedFrames,
                 droppedFrames, rtDiff, wall, presented, termInit, ring,
                 samplesPlayed, volume, cfgVolume, audioStarted, expOpened,
                 frameIndex, encoder, written, exportErrors, expConfig,
                 blitOutside, res, released, usedFreed, gInterrupted,
                 submitted, delivered, faults, sincePause, popped, rConfig,
                 rSnap, picture, rCells, rOut, ascii, nKeys, keys, keyLog>>

\* decodeThread: "while (running_)" fails; videoCv_.notify_all(), and the
\* thread ends.
decodeThread_Exit ==
    /\ pc["pd"] = "loop"
    /\ ~running
    /\ cvPV' = {}
    /\ pc' = [pc EXCEPT !["pd"] = "done"]
    /\ UNCHANGED <<nVideo, nAudio, audioEnabled, targetFps, exportEnabled,
                 dRunning, dFinished, dJoinable, dVQ, dAQ, vRead, aRead,
                 cvDV, cvDA, running, paused, pVQ, pAQ, cvPA,
                 renderedFrames, droppedFrames, hand, rtDiff, wall,
                 presented, termInit, ring, samplesPlayed, volume,
                 cfgVolume, audioStarted, expOpened, frameIndex, encoder,
                 written, exportErrors, expConfig, blitOutside, res,
                 released, usedFreed, gInterrupted, submitted, delivered,
                 faults, sincePause, popped, rConfig, rSnap, picture,
                 rCells, rOut, ascii, nKeys, keys, keyLog>>

\* asciiThread: "while (running_)" fails; asciiCv_.notify_all(), and the
\* thread ends.
asciiThread_Exit ==
    /\ pc["at"] = "loop"
    /\ ~running
    /\ cvPA' = {}
    /\ pc' = [pc EXCEPT !["at"] = "done"]
    /\ UNCHANGED <<nVideo, nAudio, audioEnabled, targetFps, exportEnabled,
                 dRunning, dFinished, dJoinable, dVQ, dAQ, vRead, aRead,
                 cvDV, cvDA, running, paused, pVQ, pAQ, cvPV,
                 renderedFrames, droppedFrames, hand, rtDiff, wall,
                 presented, termInit, ring, samplesPlayed, volume,
                 cfgVolume, audioStarted, expOpened, frameIndex, encoder,
                 written, exportErrors, expConfig, blitOutside, res,
                 released, usedFreed, gInterrupted, submitted, delivered,
                 faults, sincePause, popped, rConfig, rSnap, picture,
                 rCells, rOut, ascii, nKeys, keys, keyLog>>

\* asciiThread, "while (running_)" holds: lock videoMutex_, wait for a frame
\* or !running_; on "!running_ && empty" break (asciiCv_.notify_all(), the thread
\* ends), else pop the front.
asciiThread_Wait ==
    /\ (pc["at"] = "loop" /\ running) \/ AtWait("at", "wait", "wait_wait", cvPV)
    /\ PVideoMutexFree
    /\ IF pVQ # <<>> \/ ~running
       THEN IF ~running /\ pVQ = <<>>
            THEN /\ pc' = [pc EXCEPT !["at"] = "done"]
                 /\ cvPA' = {}
                 /\ UNCHANGED <<pVQ, hand>>
            ELSE /\ hand' = [hand EXCEPT !["at"] = QueueFront(pVQ)]
                 /\ pVQ' = Tail(pVQ)
                 /\ pc' = [pc EXCEPT !["at"] = "render"]
                 /\ UNCHANGED cvPA
       ELSE /\ pc' = [pc EXCEPT !["at"] = "wait_block"]
            /\ UNCHANGED <<pVQ, hand, cvPA>>
    /\ UNCHANGED <<nVideo, nAudio, audioEnabled, targetFps, exportEnabled,
                 dRunning, dFinished, dJoinable, dVQ, dAQ, vRead, aRead,
                 cvDV, cvDA, running, paused, pAQ, cvPV, renderedFrames,
                 droppedFrames, rtDiff, wall, presented, termInit, ring,
                 samplesPlayed, volume, cfgVolume, audioStarted, expOpened,
                 frameIndex, encoder, written, exportErrors, expConfig,
                 blitOutside, res, released, usedFreed, gInterrupted,
                 submitted, delivered, faults, sincePause, popped, rConfig,
                 rSnap, picture, rCells, rOut, ascii, nKeys, keys, keyLog>>

\* The wait of asciiThread releases videoMutex_ and parks on videoCv_.
asciiThread_Park ==
    /\ pc["at"] = "wait_block"
    /\ cvPV' = cvPV \cup {"at"}
    /\ pc' = [pc EXCEPT !["at"] = "wait_wait"]
    /\ UNCHANGED <<nVideo, nAudio, audioEnabled, targetFps, exportEnabled,
                 dRunning, dFinished, dJoinable, dVQ, dAQ, vRead, aRead,
                 cvDV, cvDA, running, paused, pVQ, pAQ, cvPA,
                 renderedFrames, droppedFrames, hand, rtDiff, wall,
                 presented, termInit, ring, samplesPlayed, volume,
                 cfgVolume, audioStarted, expOpened, frameIndex, encoder,
                 written, exportErrors, expConfig, blitOutside, res,
                 released, usedFreed, gInterrupted, submitted, delivered,
                 faults, sincePause, popped, rConfig, rSnap, picture,
                 rCells, rOut, ascii, nKeys, keys, keyLog>>

\* asciiThread: ascii = renderer_.render(frame), asciiQueue_.push under
\* asciiMutex_, then asciiCv_.notify_one().
asciiThread_Push ==
    /\ pc["at"] = "render"
    /\ PAsciiMutexFree
    /\ pAQ' = Append(pAQ, RenderFrame(hand["at"]))
    /\ cvPA' \in NotifyOne(cvPA)
    /\ hand' = [hand EXCEPT !["at"] = NoFrame]
    /\ pc' = [pc EXCEPT !["at"] = "loop"]
    /\ UNCHANGED <<nVideo, nAudio, audioEnabled, targetFps, exportEnabled,
                 dRunning, dFinished, dJoinable, dVQ, dAQ, vRead, aRead,
                 cvDV, cvDA, running, paused, pVQ, cvPV, renderedFrames,
                 droppedFrames, rtDiff, wall, presented, termInit, ring,
                 samplesPlayed, volume, cfgVolume, audioStarted, expOpened,
                 frameIndex, encoder, written, exportErrors, expConfig,
                 blitOutside, res, released, usedFreed, gInterrupted,
                 submitted, delivered, faults, sincePause, popped, rConfig,
                 rSnap, picture, rCells, rOut, ascii, nKeys, keys, keyLog>>

\* A pause loop that never holds, and a drop test one frame late (faulty
\* variants, to compare with).
PauseHoldsNever == FALSE
AudioDropLate(diff) == diff < -DropBelowMs - FrameMs

\* The presenter's tests (pipeline.cpp:140, :158, :160, :168), times in ms.
PauseHolds == paused /\ running
AudioSleep(diff) == diff > SleepAboveMs
AudioDrop(diff) == diff < -DropBelowMs
\* The wall-clock test with the audio path's threshold (a faulty variant, to
\* compare with).
WallSleepAboveTen(diff) == diff > SleepAboveMs
WallSleep(diff) == diff > 0

\* A target that is the frame's pts under every --fps (a faulty variant, to
\* compare with).
TargetPts(f) == f.pts

\* target: the frame's pts, or renderedFrames_ / targetFps when targetFps > 0.
Target(f) ==
    IF targetFps > 0 THEN (renderedFrames * 1000) \div targetFps ELSE f.pts

\* AudioPlayer::playbackTime: samplesPlayed_ / sampleRate (config_.enabled is
\* true in every AudioPlayer the pipeline starts or leaves unstarted).
PlaybackTime == (samplesPlayed * 1000) \div SampleRate

\* The readings steady_clock may give after the reading `from`.
WallTimes(from) == {from} \cup {w \in from..MaxWallMs : w % WallTickMs = 0}

\* renderThread: "while (running_)" fails and the thread ends.
renderThread_Exit ==
    /\ pc["rt"] = "loop"
    /\ ~running
    /\ pc' = [pc EXCEPT !["rt"] = "done"]
    /\ UNCHANGED <<nVideo, nAudio, audioEnabled, targetFps, exportEnabled,
                 dRunning, dFinished, dJoinable, dVQ, dAQ, vRead, aRead,
                 cvDV, cvDA, running, paused, pVQ, pAQ, cvPV, cvPA,
                 renderedFrames, droppedFrames, hand, rtDiff, wall,
                 presented, termInit, ring, samplesPlayed, volume,
                 cfgVolume, audioStarted, expOpened, frameIndex, encoder,
                 written, exportErrors, expConfig, blitOutside, res,
                 released, usedFreed, gInterrupted, submitted, delivered,
                 faults, sincePause, popped, rConfig, rSnap, picture,
                 rCells, rOut, ascii, nKeys, keys, keyLog>>

\* renderThread, "while (running_)" holds: lock asciiMutex_, wait for a
\* frame or !running_; break on "!running_ && empty", else pop the front.
renderThread_Wait ==
    /\ (pc["rt"] = "loop" /\ running) \/ AtWait("rt", "wait", "wait_wait", cvPA)
    /\ PAsciiMutexFree
    /\ IF pAQ # <<>> \/ ~running
       THEN IF ~running /\ pAQ = <<>>
            THEN /\ pc' = [pc EXCEPT !["rt"] = "done"]
                 /\ UNCHANGED <<pAQ, hand, popped>>
            ELSE /\ hand' = [hand EXCEPT !["rt"] = QueueFront(pAQ)]
                 /\ pAQ' = Tail(pAQ)
                 /\ popped' = popped + 1
                 /\ pc' = [pc EXCEPT !["rt"] = "pause"]
       ELSE /\ pc' = [pc EXCEPT !["rt"] = "wait_block"]
            /\ UNCHANGED <<pAQ, hand, popped>>
    /\ UNCHANGED <<nVideo, nAudio, audioEnabled, targetFps, exportEnabled,
                 dRunning, dFinished, dJoinable, dVQ, dAQ, vRead, aRead,
                 cvDV, cvDA, running, paused, pVQ, cvPV, cvPA,
                 renderedFrames, droppedFrames, rtDiff, wall, presented,
                 termInit, ring, samplesPlayed, volume, cfgVolume,
                 audioStarted, expOpened, frameIndex, encoder, written,
                 exportErrors, expConfig, blitOutside, res, released,
                 usedFreed, gInterrupted, submitted, delivered, faults,
                 sincePause, rConfig, rSnap, picture, rCells, rOut, ascii,
                 nKeys, keys, keyLog>>

\* The wait of renderThread releases asciiMutex_ and parks on asciiCv_.
renderThread_Park ==
    /\ pc["rt"] = "wait_block"
    /\ cvPA' = cvPA \cup {"rt"}
    /\ pc' = [pc EXCEPT !["rt"] = "wait_wait"]
    /\ UNCHANGED <<nVideo, nAudio, audioEnabled, targetFps, exportEnabled,
                 dRunning, dFinished, dJoinable, dVQ, dAQ, vRead, aRead,
                 cvDV, cvDA, running, paused, pVQ, pAQ, cvPV,
                 renderedFrames, droppedFrames, hand, rtDiff, wall,
                 presented, termInit, ring, samplesPlayed, volume,
                 cfgVolume, audioStarted, expOpened, frameIndex, encoder,
                 written, exportErrors, expConfig, blitOutside, res,
                 released, usedFreed, gInterrupted, submitted, delivered,
                 faults, sincePause, popped, rConfig, rSnap, picture,
                 rCells, rOut, ascii, nKeys, keys, keyLog>>

\* renderThread: "while (paused_ && running_) sleep 20 ms": one test of the
\* loop condition; a true test sleeps and tests again, a false one goes on to
\* "if (!running_) break" and the export or the live branch.
renderThread_Pause ==
    /\ pc["rt"] = "pause"
    /\ IF PauseHolds
       THEN UNCHANGED <<pc, hand>>
       ELSE IF ~running
       THEN /\ pc' = [pc EXCEPT !["rt"] = "done"]
            /\ hand' = [hand EXCEPT !["rt"] = NoFrame]
       ELSE /\ pc' = [pc EXCEPT !["rt"] = IF exportEnabled THEN "export" ELSE "pace"]
            /\ UNCHANGED hand
    /\ UNCHANGED <<nVideo, nAudio, audioEnabled, targetFps, exportEnabled,
                 dRunning, dFinished, dJoinable, dVQ, dAQ, vRead, aRead,
                 cvDV, cvDA, running, paused, pVQ, pAQ, cvPV, cvPA,
                 renderedFrames, droppedFrames, rtDiff, wall, presented,
                 termInit, ring, samplesPlayed, volume, cfgVolume,
                 audioStarted, expOpened, frameIndex, encoder, written,
                 exportErrors, expConfig, blitOutside, res, released,
                 usedFreed, gInterrupted, submitted, delivered, faults,
                 sincePause, popped, rConfig, rSnap, picture, rCells, rOut,
                 ascii, nKeys, keys, keyLog>>

\* The audio branch with a drop that counts nothing (a faulty variant, to
\* compare with).
renderThread_PaceAudioUncounted ==
    /\ pc["rt"] = "pace"
    /\ audioEnabled
    /\ LET diff == Target(hand["rt"]) - PlaybackTime
       IN  /\ rtDiff' = diff
           /\ IF AudioSleep(diff)
              THEN /\ pc' = [pc EXCEPT !["rt"] = "sleep"]
                   /\ UNCHANGED <<droppedFrames, sincePause, hand>>
              ELSE IF AudioDrop(diff)
              THEN /\ hand' = [hand EXCEPT !["rt"] = NoFrame]
                   /\ pc' = [pc EXCEPT !["rt"] = "loop"]
                   /\ UNCHANGED <<droppedFrames, sincePause>>
              ELSE /\ pc' = [pc EXCEPT !["rt"] = "present"]
                   /\ UNCHANGED <<droppedFrames, sincePause, hand>>
    /\ UNCHANGED <<nVideo, nAudio, audioEnabled, targetFps, exportEnabled,
                 dRunning, dFinished, dJoinable, dVQ, dAQ, vRead, aRead,
                 cvDV, cvDA, running, paused, pVQ, pAQ, cvPV, cvPA,
                 renderedFrames, droppedFrames, wall, presented, termInit,
                 ring, samplesPlayed, volume, cfgVolume, audioStarted,
                 expOpened, frameIndex, encoder, written, exportErrors,
                 expConfig, blitOutside, res, released, usedFreed,
                 gInterrupted, submitted, delivered, faults, sincePause,
                 popped, rConfig, rSnap, picture, rCells, rOut, ascii,
                 nKeys, keys, keyLog>>

\* renderThread, live branch with config_.audio.enabled: measure diff against
\* the audio clock; sleep when diff > 10 ms, drop (++droppedFrames_; continue) when
\* diff < -50 ms, else present at once.
renderThread_PaceAudio ==
    /\ pc["rt"] = "pace"
    /\ audioEnabled
    /\ LET diff == Target(hand["rt"]) - PlaybackTime
       IN  /\ rtDiff' = diff
           /\ IF AudioSleep(diff)
              THEN /\ pc' = [pc EXCEPT !["rt"] = "sleep"]
                   /\ UNCHANGED <<droppedFrames, sincePause, hand>>
              ELSE IF AudioDrop(diff)
              THEN /\ droppedFrames' = droppedFrames + 1
                   /\ sincePause' = IF paused THEN sincePause + 1 ELSE sincePause
                   /\ hand' = [hand EXCEPT !["rt"] = NoFrame]
                   /\ pc' = [pc EXCEPT !["rt"] = "loop"]
              ELSE /\ pc' = [pc EXCEPT !["rt"] = "present"]
                   /\ UNCHANGED <<droppedFrames, sincePause, hand>>
    /\ UNCHANGED <<nVideo, nAudio, audioEnabled, targetFps, exportEnabled,
                 dRunning, dFinished, dJoinable, dVQ, dAQ, vRead, aRead,
                 cvDV, cvDA, running, paused, pVQ, pAQ, cvPV, cvPA,
                 renderedFrames, wall, presented, termInit, ring,
                 samplesPlayed, volume, cfgVolume, audioStarted, expOpened,
                 frameIndex, encoder, written, exportErrors, expConfig,
                 blitOutside, res, released, usedFreed, gInterrupted,
                 submitted, delivered, faults, popped, rConfig, rSnap,
                 picture, rCells, rOut, ascii, nKeys, keys, keyLog>>

\* renderThread, live branch without audio: measure diff against the time
\* elapsed since clockStart; sleep when diff > 0.
renderThread_PaceWall ==
    /\ pc["rt"] = "pace"
    /\ ~audioEnabled
    /\ \E now \in WallTimes(wall) :
          LET diff == Target(hand["rt"]) - now
          IN  /\ wall' = now
              /\ rtDiff' = diff
              /\ pc' = [pc EXCEPT !["rt"] = IF WallSleep(diff) THEN "sleep" ELSE "present"]
    /\ UNCHANGED <<nVideo, nAudio, audioEnabled, targetFps, exportEnabled,
                 dRunning, dFinished, dJoinable, dVQ, dAQ, vRead, aRead,
                 cvDV, cvDA, running, paused, pVQ, pAQ, cvPV, cvPA,
                 renderedFrames, droppedFrames, hand, presented, termInit,
                 ring, samplesPlayed, volume, cfgVolume, audioStarted,
                 expOpened, frameIndex, encoder, written, exportErrors,
                 expConfig, blitOutside, res, released, usedFreed,
                 gInterrupted, submitted, delivered, faults, sincePause,
                 popped, rConfig, rSnap, picture, rCells, rOut, ascii,
                 nKeys, keys, keyLog>>

\* renderThread: sleep_for(diff) returns; on the wall-clock path at least
\* diff has elapsed.
renderThread_Sleep ==
    /\ pc["rt"] = "sleep"
    /\ wall' = IF audioEnabled THEN wall ELSE Min(wall + rtDiff, MaxWallMs)
    /\ pc' = [pc EXCEPT !["rt"] = "present"]
    /\ UNCHANGED <<nVideo, nAudio, audioEnabled, targetFps, exportEnabled,
                 dRunning, dFinished, dJoinable, dVQ, dAQ, vRead, aRead,
                 cvDV, cvDA, running, paused, pVQ, pAQ, cvPV, cvPA,
                 renderedFrames, droppedFrames, hand, rtDiff, presented,
                 termInit, ring, samplesPlayed, volume, cfgVolume,
                 audioStarted, expOpened, frameIndex, encoder, written,
                 exportErrors, expConfig, blitOutside, res, released,
                 usedFreed, gInterrupted, submitted, delivered, faults,
                 sincePause, popped, rConfig, rSnap, picture, rCells, rOut,
                 ascii, nKeys, keys, keyLog>>

\* renderThread: terminal_.present(frame) (a no-op on an uninitialized
\* terminal), ++renderedFrames_, updateStats.
renderThread_Present ==
    /\ pc["rt"] = "present"
    /\ presented' = IF termInit THEN Append(presented, hand["rt"].id) ELSE presented
    /\ rtDiff' = 0
    /\ renderedFrames' = renderedFrames + 1
    /\ sincePause' = IF paused THEN sincePause + 1 ELSE sincePause
    /\ hand' = [hand EXCEPT !["rt"] = NoFrame]
    /\ pc' = [pc EXCEPT !["rt"] = "loop"]
    /\ UNCHANGED <<nVideo, nAudio, audioEnabled, targetFps, exportEnabled,
                 dRunning, dFinished, dJoinable, dVQ, dAQ, vRead, aRead,
                 cvDV, cvDA, running, paused, pVQ, pAQ, cvPV, cvPA,
                 droppedFrames, wall, termInit, ring, samplesPlayed,
                 volume, cfgVolume, audioStarted, expOpened, frameIndex,
                 encoder, written, exportErrors, expConfig, blitOutside,
                 res, released, usedFreed, gInterrupted, submitted,
                 delivered, faults, popped, rConfig, rSnap, picture,
                 rCells, rOut, ascii, nKeys, keys, keyLog>>

\* An encoder input that keeps the frame's own pts (a faulty variant, to
\* compare with).
EncoderFramePts(f, index) == [id |-> f.id, pts |-> f.pts]

\* yuvFrame_ as Exporter::writeFrame sends it: the picture of f with
\* pts = frameIndex_ (exporter.cpp:160).
EncoderFrame(f, index) == [id |-> f.id, pts |-> index]

\* How Exporter::writeFrame may end once the exporter is opened: "send",
\* avcodec_send_frame fails; "again", avcodec_receive_packet ends the loop
\* with EAGAIN; "receive", it fails; "write", av_interleaved_write_frame
\* fails.
WriteEnds == {"send", "again", "receive", "write"}

\* A writeFrame whose failure empties the encoder (a faulty variant, to
\* compare with).
writeFrameAbort(f, end, n) ==
    [encoder |-> IF end = "again"
                 THEN Append(encoder, EncoderFrame(f, frameIndex)) ELSE <<>>,
     written |-> written, ok |-> end = "again"]

\* Exporter::writeFrame(f) on an opened exporter, ending in `end` after the
\* encoder has given n packets that were written. The encoder (opened with
\* max_b_frames = 2, exporter.cpp:82) may hold frames back; it gives one
\* packet per frame, in the order the frames were sent. A packet whose write
\* fails is gone: the encoder has given it and the output has not got it.
writeFrame(f, end, n) ==
    LET sent == IF end = "send" THEN encoder
                ELSE Append(encoder, EncoderFrame(f, frameIndex))
        taken == IF end = "write" THEN n + 1 ELSE n
    IN  [encoder |-> SubSeq(sent, taken + 1, Len(sent)),
         written |-> written \o SubSeq(sent, 1, n),
         ok |-> end = "again"]

\* The numbers of packets writeFrame may have written when it ends in `end`.
PacketsBefore(end) ==
    CASE end = "send" -> {0}
      [] end = "write" -> 0..Len(encoder)
      [] OTHER -> 0..(Len(encoder) + 1)

\* The encoder resources Exporter holds by raw pointers (exporter.hpp):
\* fmtCtx_, codecCtx_, swsCtx_, rgbFrame_, yuvFrame_. A pointer is "null",
\* "live" (it points to the resource) or "dangling" (the resource has been
\* released and the pointer still holds its address).
Resources == {"fmtCtx", "codecCtx", "swsCtx", "rgbFrame", "yuvFrame"}

\* Where Exporter::open may return: "name" (empty file name), then the
\* failures of initializeEncoder in their order ("codec": no encoder,
\* "context": avformat_alloc_output_context2, "stream": avformat_new_stream,
\* "encoder": avcodec_open2, "file": avio_open, "header":
\* avformat_write_header, "sws": sws_getContext), and "opened", its
\* success.
OpenFailures == {"name", "codec", "context", "stream", "encoder", "file", "header", "sws"}

\* The resources allocated when open returns there: no failure releases
\* what was allocated before it.
AllocatedAt(end) ==
    CASE end \in {"name", "codec", "context"} -> {}
      [] end = "stream" -> {"fmtCtx"}
      [] end \in {"encoder", "file", "header"} -> {"fmtCtx", "codecCtx"}
      [] end = "sws" -> {"fmtCtx", "codecCtx", "rgbFrame", "yuvFrame"}
      [] OTHER -> Resources

\* The pointers of an Exporter whose only open returned at `end`.
PointersAt(end) ==
    [r \in Resources |-> IF r \in AllocatedAt(end) THEN "live" ELSE "null"]

\* The pointers Exporter::close hands by address to the call that releases
\* them, which sets them to null: av_frame_free(&rgbFrame_),
\* av_frame_free(&yuvFrame_), avcodec_free_context(&codecCtx_).
\* avformat_free_context(fmtCtx_) and sws_freeContext(swsCtx_) take the
\* pointer by value and close assigns nothing to it.
NulledByRelease == {"rgbFrame", "yuvFrame", "codecCtx"}

\* The pointers after Exporter::close, from the pointers p before it: every
\* pointer that is not null is released.
ClosePointers(p) ==
    [r \in Resources |->
        IF p[r] = "null" \/ r \in NulledByRelease THEN "null" ELSE "dangling"]

\* The releases counted after Exporter::close: one more for every pointer
\* that was not null.
CloseReleased(p, n) ==
    [r \in Resources |-> IF p[r] = "null" THEN n[r] ELSE n[r] + 1]

\* The released resources Exporter::close dereferences: fmtCtx_->oformat
\* and fmtCtx_->pb under "if (fmtCtx_)".
CloseUses(p) == {r \in {"fmtCtx"} : p[r] = "dangling"}

\* The released resources an opened Exporter::writeFrame dereferences: it
\* uses all five.
WriteUses(p) == {r \in Resources : p[r] = "dangling"}

\* Exporter::close on pointers p has undefined behaviour when one of them is
\* dangling: it releases the resource again.
CloseUndefined(p) == \E r \in Resources : p[r] = "dangling"

\* An Exporter in a pipeline after Pipeline::initialize: opened in export
\* mode (ex), untouched otherwise.
ExporterAfterInit(ex) ==
    /\ res = PointersAt(IF ex THEN "opened" ELSE "name")
    /\ released = [r \in Resources |-> 0]
    /\ usedFreed = {}

\* Exporter::blitAscii: the indices of buffer it writes for a frame of
\* cols x rows cells, each glyph scaled to glyphW x glyphH pixels.
BlitIndices(cols, rows, glyphW, glyphH, stride) ==
    {(y * glyphH + yy) * stride + (x * glyphW + xx) :
        y \in 0..(rows - 1), x \in 0..(cols - 1),
        yy \in 0..(glyphH - 1), xx \in 0..(glyphW - 1)}

\* The buffer writeFrame allocates: rgbFrame_->width * rgbFrame_->height,
\* which initializeEncoder set to gridCols * glyphW_ and gridRows * glyphH_
\* of the export configuration (exporter.cpp:76-77, :114-115, :144).
BufferSize(rc, ec) ==
    ec.gridCols * Max(4, ec.fontW) * ec.gridRows * Max(8, ec.fontH)

\* The indices blitAscii writes outside that buffer for a frame rendered
\* under the renderer configuration rc (frame.cols and frame.rows are the
\* renderer's grid, which no key changes); glyphW_ = max(4, fontW), glyphH_ =
\* max(8, fontH) (exporter.cpp:24-25), stride = rgbFrame_->width.
\* The index grows with each of y, yy, x and xx and starts at 0, so that
\* none is outside when the last one, that of the last pixel of the last
\* cell, is inside.
BlitOutside(rc, ec) ==
    LET glyphW == Max(4, ec.fontW)
        glyphH == Max(8, ec.fontH)
        stride == ec.gridCols * glyphW
        last == (rc.gridRows * glyphH - 1) * stride + (rc.gridCols * glyphW - 1)
    IN  IF last < BufferSize(rc, ec) THEN {}
        ELSE {i \in BlitIndices(rc.gridCols, rc.gridRows, glyphW, glyphH, stride) :
                 i < 0 \/ i >= BufferSize(rc, ec)}

\* The fonts of --export-font the specifications draw from: the default
\* and one below the smallest glyph.
ExportFonts == {<<8, 16>>, <<2, 2>>}

\* renderThread, export branch: exporter_.writeFrame(frame), "Export error"
\* on stderr when it returns false (at once, with frameIndex_ as it was, when
\* the exporter is not opened), then ++renderedFrames_ whatever it returned.
\* An opened writeFrame first blits the frame into its buffer; a write outside
\* the buffer is undefined: the process goes on as if nothing happened, or it
\* is ended there.
renderThread_Export ==
    /\ pc["rt"] = "export"
    /\ LET outside == IF expOpened THEN BlitOutside(rConfig, expConfig) ELSE {}
       IN  /\ blitOutside' = blitOutside \cup outside
           /\ usedFreed' = usedFreed \cup (IF expOpened THEN WriteUses(res) ELSE {})
           /\ \E ended \in (IF outside = {} THEN {FALSE} ELSE BOOLEAN) :
                IF ended
                THEN /\ pc' = [t \in Threads |-> "aborted"]
                     /\ UNCHANGED <<frameIndex, encoder, written, submitted,
                                    exportErrors, renderedFrames, sincePause, hand>>
                ELSE /\ \E end \in WriteEnds :
                          \E n \in PacketsBefore(end) :
                             LET r == writeFrame(hand["rt"], end, n)
                             IN  /\ frameIndex' = IF expOpened THEN frameIndex + 1 ELSE frameIndex
                                 /\ encoder' = IF expOpened THEN r.encoder ELSE encoder
                                 /\ written' = IF expOpened THEN r.written ELSE written
                                 /\ submitted' = Append(submitted,
                                                        [id |-> hand["rt"].id,
                                                         pts |-> IF expOpened THEN frameIndex ELSE -1,
                                                         ok |-> expOpened /\ r.ok])
                                 /\ exportErrors' = IF expOpened /\ r.ok THEN exportErrors
                                                                         ELSE exportErrors + 1
                     /\ renderedFrames' = renderedFrames + 1
                     /\ sincePause' = IF paused THEN sincePause + 1 ELSE sincePause
                     /\ hand' = [hand EXCEPT !["rt"] = NoFrame]
                     /\ pc' = [pc EXCEPT !["rt"] = "loop"]
    /\ UNCHANGED <<nVideo, nAudio, audioEnabled, targetFps, exportEnabled,
                 dRunning, dFinished, dJoinable, dVQ, dAQ, vRead, aRead,
                 cvDV, cvDA, running, paused, pVQ, pAQ, cvPV, cvPA,
                 droppedFrames, rtDiff, wall, presented, termInit, ring,
                 samplesPlayed, volume, cfgVolume, audioStarted, expOpened,
                 expConfig, res, released, gInterrupted, delivered, faults,
                 popped, rConfig, rSnap, picture, rCells, rOut, ascii,
                 nKeys, keys, keyLog>>

\* audioThread: "while (running_)" fails and the thread ends.
audioThread_Exit ==
    /\ pc["au"] = "loop"
    /\ ~running
    /\ pc' = [pc EXCEPT !["au"] = "done"]
    /\ UNCHANGED <<nVideo, nAudio, audioEnabled, targetFps, exportEnabled,
                 dRunning, dFinished, dJoinable, dVQ, dAQ, vRead, aRead,
                 cvDV, cvDA, running, paused, pVQ, pAQ, cvPV, cvPA,
                 renderedFrames, droppedFrames, hand, rtDiff, wall,
                 presented, termInit, ring, samplesPlayed, volume,
                 cfgVolume, audioStarted, expOpened, frameIndex, encoder,
                 written, exportErrors, expConfig, blitOutside, res,
                 released, usedFreed, gInterrupted, submitted, delivered,
                 faults, sincePause, popped, rConfig, rSnap, picture,
                 rCells, rOut, ascii, nKeys, keys, keyLog>>

\* audioThread: audio_.enqueue(frame) appends the frame's samples to the
\* ring under AudioPlayer::mutex_.
audioThread_Enqueue ==
    /\ pc["au"] = "enqueue"
    /\ ring' = ring + FrameSamples
    /\ hand' = [hand EXCEPT !["au"] = NoFrame]
    /\ pc' = [pc EXCEPT !["au"] = "loop"]
    /\ UNCHANGED <<nVideo, nAudio, audioEnabled, targetFps, exportEnabled,
                 dRunning, dFinished, dJoinable, dVQ, dAQ, vRead, aRead,
                 cvDV, cvDA, running, paused, pVQ, pAQ, cvPV, cvPA,
                 renderedFrames, droppedFrames, rtDiff, wall, presented,
                 termInit, samplesPlayed, volume, cfgVolume, audioStarted,
                 expOpened, frameIndex, encoder, written, exportErrors,
                 expConfig, blitOutside, res, released, usedFreed,
                 gInterrupted, submitted, delivered, faults, sincePause,
                 popped, rConfig, rSnap, picture, rCells, rOut, ascii,
                 nKeys, keys, keyLog>>

\* AudioPlayer::onData, the device callback asking for frameCount sample
\* frames: samplesRequested = frameCount * channels; an empty ring zero-fills
\* the output and returns; else samplesAvailable = min(queue_.size(),
\* samplesRequested) samples leave the ring for the output and
\* samplesAvailable / channels is added to samplesPlayed_.
onData(frameCount) ==
    /\ audioStarted
    /\ IF ring = 0
       THEN UNCHANGED <<ring, samplesPlayed, delivered>>
       ELSE LET samplesAvailable == Min(ring, frameCount * Channels)
            IN  /\ ring' = ring - samplesAvailable
                /\ delivered' = delivered + samplesAvailable
                /\ samplesPlayed' = samplesPlayed + (samplesAvailable \div Channels)
    /\ UNCHANGED <<nVideo, nAudio, audioEnabled, targetFps, exportEnabled,
                 dRunning, dFinished, dJoinable, dVQ, dAQ, vRead, aRead,
                 cvDV, cvDA, running, paused, pVQ, pAQ, cvPV, cvPA,
                 renderedFrames, droppedFrames, pc, hand, rtDiff, wall,
                 presented, termInit, volume, cfgVolume, audioStarted,
                 expOpened, frameIndex, encoder, written, exportErrors,
                 expConfig, blitOutside, res, released, usedFreed,
                 gInterrupted, submitted, faults, sincePause, popped,
                 rConfig, rSnap, picture, rCells, rOut, ascii, nKeys, keys,
                 keyLog>>

\* ------------------------------------------------------- AsciiRenderer
\* gamma and contrast are kept in tenths, a Bayer threshold in sixteenths, a
\* luminance in 1/10000 of a level and a normalized brightness (0.0..1.0) in
\* units of 1/NormOne, the luminance of a white pixel: the sums below are then
\* exact, the quotients exact wherever the model's inputs lead them.
NormOne == 255 * 10000
RenderModes == {"Gray", "ANSI256", "TrueColor"}
DitherModes == {"Off", "Bayer2", "Bayer4"}

Clamp(v, lo, hi) == IF v < lo THEN lo ELSE IF v > hi THEN hi ELSE v

\* kRamp / buildRamp: the ten glyphs of the ramp.
kRamp == <<"@", "%", "#", "*", "+", "=", "-", ":", ".", " ">>

\* The modes taken in the other direction (a faulty variant, to compare
\* with).
cycleModeBack(c) ==
    [c EXCEPT !.mode = CASE c.mode = "Gray" -> "TrueColor"
                         [] c.mode = "ANSI256" -> "Gray"
                         [] c.mode = "TrueColor" -> "ANSI256"]

\* AsciiRenderer::cycleMode and cycleDither.
cycleMode(c) ==
    [c EXCEPT !.mode = CASE c.mode = "Gray" -> "ANSI256"
                         [] c.mode = "ANSI256" -> "TrueColor"
                         [] c.mode = "TrueColor" -> "Gray"]

cycleDither(c) ==
    [c EXCEPT !.dither = CASE c.dither = "Off" -> "Bayer2"
                           [] c.dither = "Bayer2" -> "Bayer4"
                           [] c.dither = "Bayer4" -> "Off"]

\* AsciiRenderer::adjustGamma and adjustContrast: clamped to 0.5..4.0 and
\* to 0.2..3.0.
adjustGamma(c, delta) == [c EXCEPT !.gamma = Clamp(c.gamma + delta, 5, 40)]
adjustContrast(c, delta) == [c EXCEPT !.contrast = Clamp(c.contrast + delta, 2, 30)]

\* The matrices read by columns (a faulty variant, to compare with).
bayer_matrixByColumns(dither) ==
    CASE dither = "Bayer2" -> [size |-> 2, thresholds |-> <<0, 12, 8, 4>>]
      [] dither = "Bayer4" ->
            [size |-> 4,
             thresholds |-> <<0, 12, 3, 15, 8, 4, 11, 7, 2, 14, 1, 13, 10, 6, 9, 5>>]
      [] OTHER -> [size |-> 1, thresholds |-> <<0>>]

\* bayer_matrix: the size and the thresholds, in sixteenths.
bayer_matrix(dither) ==
    CASE dither = "Bayer2" -> [size |-> 2, thresholds |-> <<0, 8, 12, 4>>]
      [] dither = "Bayer4" ->
            [size |-> 4,
             thresholds |-> <<0, 8, 2, 10, 12, 4, 14, 6, 3, 11, 1, 9, 15, 7, 13, 5>>]
      [] OTHER -> [size |-> 1, thresholds |-> <<0>>]

\* luminance, in 1/10000 of a level.
luminance(p) == 2126 * p[1] + 7152 * p[2] + 722 * p[3]

\* apply_gamma: clamp(value / 255) raised to 1 / gamma; std::pow is exact at
\* 0 and at 1 and, under gamma 1.0, everywhere: the cases of the model's
\* inputs.
apply_gamma(value, gamma) ==
    CASE value <= 0 -> 0
      [] value >= NormOne -> NormOne
      [] gamma = 10 -> value

\* apply_contrast: clamp((value - 0.5) * contrast + 0.5, 0, 1).
apply_contrast(value, contrast) ==
    Clamp(((value - NormOne \div 2) * contrast) \div 10 + NormOne \div 2, 0, NormOne)

pack_rgb(r, g, b) == r * 65536 + g * 256 + b
unpack_rgb(v) == <<(v \div 65536) % 256, (v \div 256) % 256, v % 256>>

ANSI_BASE_COLORS ==
    << <<0, 0, 0>>, <<205, 0, 0>>, <<0, 205, 0>>, <<205, 205, 0>>,
       <<0, 0, 238>>, <<205, 0, 205>>, <<0, 205, 205>>, <<229, 229, 229>>,
       <<127, 127, 127>>, <<255, 0, 0>>, <<0, 255, 0>>, <<255, 255, 0>>,
       <<92, 92, 255>>, <<255, 0, 255>>, <<0, 255, 255>>, <<255, 255, 255>> >>

\* Six evenly spaced levels.
CubeLevelEven(k) == k * 51
CubeLevel(k) == IF k = 0 THEN 0 ELSE 55 + k * 40

\* make_xterm_palette, indexed 0..255.
xterm_palette ==
    [i \in 0..255 |->
        IF i < 16 THEN ANSI_BASE_COLORS[i + 1]
        ELSE IF i < 232
        THEN <<CubeLevel((i - 16) \div 36), CubeLevel(((i - 16) \div 6) % 6),
               CubeLevel((i - 16) % 6)>>
        ELSE <<8 + (i - 232) * 10, 8 + (i - 232) * 10, 8 + (i - 232) * 10>>]

\* xterm_index_from_rgb: among the palette entries lo..hi, the first one at
\* the least squared distance, with that distance; the scan of the code, its
\* range taken by halves.
\* The scan keeping the later of two entries at the same distance.
RECURSIVE NearestLast(_, _, _, _, _)
NearestLast(lo, hi, r, g, b) ==
    IF lo = hi
    THEN LET dr == xterm_palette[lo][1] - r
             dg == xterm_palette[lo][2] - g
             db == xterm_palette[lo][3] - b
         IN  <<lo, dr * dr + dg * dg + db * db>>
    ELSE LET mid == (lo + hi) \div 2
             first == NearestLast(lo, mid, r, g, b)
             second == NearestLast(mid + 1, hi, r, g, b)
         IN  IF second[2] <= first[2] THEN second ELSE first

\* The scan under the sum of the channels' distances.
RECURSIVE NearestAbs(_, _, _, _, _)
NearestAbs(lo, hi, r, g, b) ==
    IF lo = hi
    THEN LET dr == xterm_palette[lo][1] - r
             dg == xterm_palette[lo][2] - g
             db == xterm_palette[lo][3] - b
         IN  <<lo, (IF dr < 0 THEN -dr ELSE dr) + (IF dg < 0 THEN -dg ELSE dg)
                   + (IF db < 0 THEN -db ELSE db)>>
    ELSE LET mid == (lo + hi) \div 2
             first == NearestAbs(lo, mid, r, g, b)
             second == NearestAbs(mid + 1, hi, r, g, b)
         IN  IF second[2] < first[2] THEN second ELSE first

RECURSIVE Nearest(_, _, _, _, _)
Nearest(lo, hi, r, g, b) ==
    IF lo = hi
    THEN LET dr == xterm_palette[lo][1] - r
             dg == xterm_palette[lo][2] - g
             db == xterm_palette[lo][3] - b
         IN  <<lo, dr * dr + dg * dg + db * db>>
    ELSE LET mid == (lo + hi) \div 2
             first == Nearest(lo, mid, r, g, b)
             second == Nearest(mid + 1, hi, r, g, b)
         IN  IF second[2] < first[2] THEN second ELSE first

\* The scan applied to the three uint8_t arguments.
xterm_index_from_rgb(r, g, b) ==
    [c \in (0..255) \X (0..255) \X (0..255) |->
        Nearest(0, 255, c[1], c[2], c[3])[1]][<<r, g, b>>]

\* sampleCell with std::clamp(start + i, 0, size) in place of size - 1 (a
\* faulty variant, to compare with).
SampleCoordsToSize(width, height, startX, startY, cellWidth, cellHeight) ==
    [it \in (0..(cellHeight - 1)) \X (0..(cellWidth - 1)) |->
        <<Clamp(startX + it[2], 0, width), Clamp(startY + it[1], 0, height)>>]

\* AsciiRenderer::sampleCell, its two loops: for every turn <<y, x>> of the
\* inner loop the coordinates <<xx, yy>> of the pixel it reads, yy =
\* std::clamp(startY + y, 0, height - 1), xx = std::clamp(startX + x, 0,
\* width - 1). count counts these turns.
SampleCoords(width, height, startX, startY, cellWidth, cellHeight) ==
    [it \in (0..(cellHeight - 1)) \X (0..(cellWidth - 1)) |->
        <<Clamp(startX + it[2], 0, width - 1), Clamp(startY + it[1], 0, height - 1)>>]

\* The offsets into the frame's bytes sampleCell reads at <<xx, yy>>:
\* pixel = rgb + (yy * width + xx) * 3, then pixel[0], pixel[1], pixel[2].
PixelOffsets(width, c) == {(c[2] * width + c[1]) * 3 + i : i \in 0..2}

\* AsciiRenderer::render, the calls of sampleCell for cell k under the
\* snapshot cfg: <<startX, startY, cellWidth, cellHeight>> of the call for
\* the cell, and in half-block mode of the call for its lower half.
SampleCalls(pic, cfg, k) ==
    LET y == k \div cfg.gridCols
        x == k % cfg.gridCols
        cellWidth == Max(1, pic.width \div cfg.gridCols)
        cellHeight == Max(1, pic.height \div (IF cfg.halfBlock THEN cfg.gridRows * 2
                                             ELSE cfg.gridRows))
        startY == IF cfg.halfBlock THEN y * 2 * cellHeight ELSE y * cellHeight
    IN  {<<x * cellWidth, startY, cellWidth, cellHeight>>}
          \cup (IF cfg.halfBlock
                THEN {<<x * cellWidth, startY + cellHeight, cellWidth, cellHeight>>}
                ELSE {})

\* The pixel sampleCell reads at offset k of its cellWidth x cellHeight block
\* (coordinates clamped to the frame).
BlockPixel(pic, startX, startY, cellWidth, k) ==
    LET yy == Clamp(startY + (k \div cellWidth), 0, pic.height - 1)
        xx == Clamp(startX + (k % cellWidth), 0, pic.width - 1)
    IN  pic.data[yy * pic.width + xx + 1]

\* The sums sampleCell accumulates over the first n pixels of the block:
\* <<luma, r, g, b>>.
RECURSIVE Accum(_, _, _, _, _)
Accum(pic, startX, startY, cellWidth, n) ==
    IF n = 0 THEN <<0, 0, 0, 0>>
    ELSE LET a == Accum(pic, startX, startY, cellWidth, n - 1)
             p == BlockPixel(pic, startX, startY, cellWidth, n - 1)
         IN  <<a[1] + luminance(p), a[2] + p[1], a[3] + p[2], a[4] + p[3]>>

\* AsciiRenderer::sampleCell, reading the configuration conf: config_ as it
\* is when the call runs.
sampleCell(pic, conf, startX, startY, cellWidth, cellHeight, row, col) ==
    LET matrix == bayer_matrix(conf.dither)
        count == cellWidth * cellHeight
        acc == Accum(pic, startX, startY, cellWidth, count)
        avgLuma == acc[1] \div count
        normalized == apply_contrast(apply_gamma(avgLuma, conf.gamma), conf.contrast)
        rampIndex == Clamp((normalized * (Len(kRamp) - 1) + NormOne \div 2) \div NormOne,
                           0, Len(kRamp) - 1)
        threshold == IF matrix.size > 1
                     THEN matrix.thresholds[(row % matrix.size) * matrix.size
                                            + (col % matrix.size) + 1]
                     ELSE 0
        avgR == acc[2] \div count
        avgG == acc[3] \div count
        avgB == acc[4] \div count
        gray == avgLuma \div 10000
    IN  CASE conf.mode = "Gray" ->
               [glyph |-> kRamp[rampIndex + 1], fg |-> pack_rgb(gray, gray, gray), bg |-> 0]
          [] conf.mode = "ANSI256" ->
               LET p == xterm_palette[xterm_index_from_rgb(avgR, avgG, avgB)]
               IN  [glyph |-> IF 16 * normalized + NormOne * threshold > 16 * NormOne
                              THEN "#" ELSE kRamp[rampIndex + 1],
                    fg |-> pack_rgb(p[1], p[2], p[3]), bg |-> 0]
          [] OTHER ->
               [glyph |-> kRamp[rampIndex + 1], fg |-> pack_rgb(avgR, avgG, avgB), bg |-> 0]

\* The cell loop with half-block cells of a quarter of a grid row's height.
RenderCellQuarter(pic, cfg, live, k) ==
    LET y == k \div cfg.gridCols
        x == k % cfg.gridCols
        cellWidth == Max(1, pic.width \div cfg.gridCols)
        cellHeight == Max(1, pic.height \div (IF cfg.halfBlock THEN cfg.gridRows * 4
                                             ELSE cfg.gridRows))
        startY == IF cfg.halfBlock THEN y * 2 * cellHeight ELSE y * cellHeight
        cellTop == sampleCell(pic, live, x * cellWidth, startY, cellWidth, cellHeight, y, x)
        cellBottom == sampleCell(pic, live, x * cellWidth, startY + cellHeight,
                                 cellWidth, cellHeight, y + 1, x)
    IN  IF cfg.halfBlock
        THEN [glyph |-> "half", fg |-> cellBottom.fg, bg |-> cellTop.fg]
        ELSE cellTop

\* The cell loop with the two halves of a half-block cell exchanged.
RenderCellSwapped(pic, cfg, live, k) ==
    LET y == k \div cfg.gridCols
        x == k % cfg.gridCols
        cellWidth == Max(1, pic.width \div cfg.gridCols)
        cellHeight == Max(1, pic.height \div (IF cfg.halfBlock THEN cfg.gridRows * 2
                                             ELSE cfg.gridRows))
        startY == IF cfg.halfBlock THEN y * 2 * cellHeight ELSE y * cellHeight
        cellTop == sampleCell(pic, live, x * cellWidth, startY, cellWidth, cellHeight, y, x)
        cellBottom == sampleCell(pic, live, x * cellWidth, startY + cellHeight,
                                 cellWidth, cellHeight, y + 1, x)
    IN  IF cfg.halfBlock
        THEN [glyph |-> "half", fg |-> cellTop.fg, bg |-> cellBottom.fg]
        ELSE cellTop

\* AsciiRenderer::render, the body of the cell loop for cell k: the grid and
\* halfBlock of the snapshot cfg, sampleCell under the configuration live.
RenderCell(pic, cfg, live, k) ==
    LET y == k \div cfg.gridCols
        x == k % cfg.gridCols
        cellWidth == Max(1, pic.width \div cfg.gridCols)
        cellHeight == Max(1, pic.height \div (IF cfg.halfBlock THEN cfg.gridRows * 2
                                             ELSE cfg.gridRows))
        startY == IF cfg.halfBlock THEN y * 2 * cellHeight ELSE y * cellHeight
        cellTop == sampleCell(pic, live, x * cellWidth, startY, cellWidth, cellHeight, y, x)
        cellBottom == sampleCell(pic, live, x * cellWidth, startY + cellHeight,
                                 cellWidth, cellHeight, y + 1, x)
    IN  IF cfg.halfBlock
        THEN [glyph |-> "half", fg |-> cellBottom.fg, bg |-> cellTop.fg]
        ELSE cellTop

\* The cells of a frame when every sampleCell call reads the same conf.
RECURSIVE RenderCells(_, _, _)
RenderCells(pic, conf, n) ==
    IF n = 0 THEN <<>>
    ELSE Append(RenderCells(pic, conf, n - 1), RenderCell(pic, conf, conf, n - 1))

\* AsciiFrame as its declaration initializes it, and as render sets it up
\* before the cell loop: cols, rows and halfBlock of the snapshot cfg, pts of
\* the frame.
NoAscii == [cols |-> 0, rows |-> 0, halfBlock |-> FALSE, pts |-> 0]

\* The frame set up without the pts of the VideoFrame.
AsciiHeaderNoPts(cfg, f) ==
    [cols |-> cfg.gridCols, rows |-> cfg.gridRows, halfBlock |-> cfg.halfBlock,
     pts |-> NoAscii.pts]

AsciiHeader(cfg, f) ==
    [cols |-> cfg.gridCols, rows |-> cfg.gridRows, halfBlock |-> cfg.halfBlock,
     pts |-> f.pts]

\* The escape sequences of render's terminal string, as tokens.
FgTrue(color) == <<"38;2", unpack_rgb(color)>>
BgTrue(color) == <<"48;2", unpack_rgb(color)>>
FgIndex(color) ==
    <<"38;5", xterm_index_from_rgb(unpack_rgb(color)[1], unpack_rgb(color)[2],
                                   unpack_rgb(color)[3])>>
FgGray(color) ==
    <<"38;2", <<unpack_rgb(color)[1], unpack_rgb(color)[1], unpack_rgb(color)[1]>> >>

\* render's string loop over one row from column x on: currentFg, currentBg
\* and haveColor as the loop carries them (currentFg starts at 0xFFFFFFFF,
\* which no packed colour equals: -1 here).
\* The string loop with the trackers carried over from the row above.
RECURSIVE RowStringNoReset(_, _, _, _, _, _, _)
RowStringNoReset(cells, cfg, y, x, currentFg, currentBg, haveColor) ==
    IF x = cfg.gridCols THEN << <<"0m">> >>
    ELSE LET cell == cells[y * cfg.gridCols + x + 1]
             carried == x = 0 /\ y > 0
             lastFg == IF carried THEN cells[y * cfg.gridCols].fg ELSE currentFg
             newFg == cfg.mode = "TrueColor"
                      /\ ((~haveColor /\ ~carried) \/ cell.fg # lastFg)
             fgPart == CASE cfg.mode = "TrueColor" ->
                              IF newFg THEN << FgTrue(cell.fg) >> ELSE <<>>
                         [] cfg.mode = "ANSI256" -> << FgIndex(cell.fg) >>
                         [] OTHER -> << FgGray(cell.fg) >>
             haveAfter == haveColor \/ newFg \/ (carried /\ cfg.mode = "TrueColor")
             newBg == cfg.halfBlock /\ (~haveAfter \/ cell.bg # currentBg)
             bgPart == IF newBg THEN << BgTrue(cell.bg) >> ELSE <<>>
             bgAfter == IF newBg THEN cell.bg ELSE currentBg
         IN  fgPart \o bgPart \o << <<cell.glyph>> >>
             \o RowStringNoReset(cells, cfg, y, x + 1, cell.fg, bgAfter, haveAfter)

RECURSIVE RowString(_, _, _, _, _, _, _)
RowString(cells, cfg, y, x, currentFg, currentBg, haveColor) ==
    IF x = cfg.gridCols THEN << <<"0m">> >>
    ELSE LET cell == cells[y * cfg.gridCols + x + 1]
             newFg == cfg.mode = "TrueColor" /\ (~haveColor \/ cell.fg # currentFg)
             fgPart == CASE cfg.mode = "TrueColor" ->
                              IF newFg THEN << FgTrue(cell.fg) >> ELSE <<>>
                         [] cfg.mode = "ANSI256" -> << FgIndex(cell.fg) >>
                         [] OTHER -> << FgGray(cell.fg) >>
             fgAfter == IF newFg THEN cell.fg ELSE currentFg
             haveAfter == haveColor \/ newFg
             newBg == cfg.halfBlock /\ (~haveAfter \/ cell.bg # currentBg)
             bgPart == IF newBg THEN << BgTrue(cell.bg) >> ELSE <<>>
             bgAfter == IF newBg THEN cell.bg ELSE currentBg
         IN  fgPart \o bgPart \o << <<cell.glyph>> >>
             \o RowString(cells, cfg, y, x + 1, fgAfter, bgAfter, haveAfter)

RECURSIVE RowsString(_, _, _)
RowsString(cells, cfg, y) ==
    IF y = cfg.gridRows THEN <<>>
    ELSE RowString(cells, cfg, y, 0, -1, 0, FALSE) \o RowsString(cells, cfg, y + 1)

\* The terminal string render builds from the cells, under the snapshot cfg.
TerminalString(cells, cfg) == << <<"H">> >> \o RowsString(cells, cfg, 0)

\* asciiThread in AsciiRenderer::render: "RendererConfig cfg = config()", the
\* snapshot under the mutex, and the empty AsciiFrame.
render_Snapshot ==
    /\ pc["at"] = "render"
    /\ rSnap' = rConfig
    /\ ascii' = AsciiHeader(rConfig, hand["at"])
    /\ rCells' = <<>>
    /\ rOut' = <<>>
    /\ pc' = [pc EXCEPT !["at"] = "cells"]
    /\ UNCHANGED <<nVideo, nAudio, audioEnabled, targetFps, exportEnabled,
                 dRunning, dFinished, dJoinable, dVQ, dAQ, vRead, aRead,
                 cvDV, cvDA, running, paused, pVQ, pAQ, cvPV, cvPA,
                 renderedFrames, droppedFrames, hand, rtDiff, wall,
                 presented, termInit, ring, samplesPlayed, volume,
                 cfgVolume, audioStarted, expOpened, frameIndex, encoder,
                 written, exportErrors, expConfig, blitOutside, res,
                 released, usedFreed, gInterrupted, submitted, delivered,
                 faults, sincePause, popped, rConfig, picture, nKeys, keys,
                 keyLog>>

\* render, one turn of the cell loop: sampleCell reads config_ (no lock, no
\* snapshot) and the cell is stored.
render_Cell ==
    /\ pc["at"] = "cells"
    /\ Len(rCells) < ascii.cols * ascii.rows
    /\ rCells' = Append(rCells, RenderCell(picture, rSnap, rConfig, Len(rCells)))
    /\ UNCHANGED <<nVideo, nAudio, audioEnabled, targetFps, exportEnabled,
                 dRunning, dFinished, dJoinable, dVQ, dAQ, vRead, aRead,
                 cvDV, cvDA, running, paused, pVQ, pAQ, cvPV, cvPA,
                 renderedFrames, droppedFrames, pc, hand, rtDiff, wall,
                 presented, termInit, ring, samplesPlayed, volume,
                 cfgVolume, audioStarted, expOpened, frameIndex, encoder,
                 written, exportErrors, expConfig, blitOutside, res,
                 released, usedFreed, gInterrupted, submitted, delivered,
                 faults, sincePause, popped, rConfig, rSnap, picture, rOut,
                 ascii, nKeys, keys, keyLog>>

\* render after the cell loop: the terminal string is built and the frame returned.
render_String ==
    /\ pc["at"] = "cells"
    /\ Len(rCells) = ascii.cols * ascii.rows
    /\ rOut' = TerminalString(rCells, rSnap)
    /\ pc' = [pc EXCEPT !["at"] = "rendered"]
    /\ UNCHANGED <<nVideo, nAudio, audioEnabled, targetFps, exportEnabled,
                 dRunning, dFinished, dJoinable, dVQ, dAQ, vRead, aRead,
                 cvDV, cvDA, running, paused, pVQ, pAQ, cvPV, cvPA,
                 renderedFrames, droppedFrames, hand, rtDiff, wall,
                 presented, termInit, ring, samplesPlayed, volume,
                 cfgVolume, audioStarted, expOpened, frameIndex, encoder,
                 written, exportErrors, expConfig, blitOutside, res,
                 released, usedFreed, gInterrupted, submitted, delivered,
                 faults, sincePause, popped, rConfig, rSnap, picture,
                 rCells, ascii, nKeys, keys, keyLog>>

\* asciiThread after render returned: asciiQueue_.push under asciiMutex_, then
\* asciiCv_.notify_one().
asciiThread_PushRendered ==
    /\ pc["at"] = "rendered"
    /\ PAsciiMutexFree
    /\ pAQ' = Append(pAQ, [id |-> hand["at"].id, pts |-> ascii.pts])
    /\ cvPA' \in NotifyOne(cvPA)
    /\ hand' = [hand EXCEPT !["at"] = NoFrame]
    /\ pc' = [pc EXCEPT !["at"] = "loop"]
    /\ UNCHANGED <<nVideo, nAudio, audioEnabled, targetFps, exportEnabled,
                 dRunning, dFinished, dJoinable, dVQ, dAQ, vRead, aRead,
                 cvDV, cvDA, running, paused, pVQ, cvPV, renderedFrames,
                 droppedFrames, rtDiff, wall, presented, termInit, ring,
                 samplesPlayed, volume, cfgVolume, audioStarted, expOpened,
                 frameIndex, encoder, written, exportErrors, expConfig,
                 blitOutside, res, released, usedFreed, gInterrupted,
                 submitted, delivered, faults, sincePause, popped, rConfig,
                 rSnap, picture, rCells, rOut, ascii, nKeys, keys, keyLog>>

\* controlThread, key 'c' or 'C': renderer_.cycleMode().
controlThread_CycleMode ==
    /\ pc["ct"] = "loop"
    /\ running
    /\ keys < nKeys
    /\ keys' = keys + 1
    /\ keyLog' = Append(keyLog, [key |-> "c", before |-> rConfig])
    /\ rConfig' = cycleMode(rConfig)
    /\ UNCHANGED <<nVideo, nAudio, audioEnabled, targetFps, exportEnabled,
                 dRunning, dFinished, dJoinable, dVQ, dAQ, vRead, aRead,
                 cvDV, cvDA, running, paused, pVQ, pAQ, cvPV, cvPA,
                 renderedFrames, droppedFrames, pc, hand, rtDiff, wall,
                 presented, termInit, ring, samplesPlayed, volume,
                 cfgVolume, audioStarted, expOpened, frameIndex, encoder,
                 written, exportErrors, expConfig, blitOutside, res,
                 released, usedFreed, gInterrupted, submitted, delivered,
                 faults, sincePause, popped, rSnap, picture, rCells, rOut,
                 ascii, nKeys>>

\* controlThread, key 'd' or 'D': renderer_.cycleDither().
controlThread_CycleDither ==
    /\ pc["ct"] = "loop"
    /\ running
    /\ keys < nKeys
    /\ keys' = keys + 1
    /\ keyLog' = Append(keyLog, [key |-> "d", before |-> rConfig])
    /\ rConfig' = cycleDither(rConfig)
    /\ UNCHANGED <<nVideo, nAudio, audioEnabled, targetFps, exportEnabled,
                 dRunning, dFinished, dJoinable, dVQ, dAQ, vRead, aRead,
                 cvDV, cvDA, running, paused, pVQ, pAQ, cvPV, cvPA,
                 renderedFrames, droppedFrames, pc, hand, rtDiff, wall,
                 presented, termInit, ring, samplesPlayed, volume,
                 cfgVolume, audioStarted, expOpened, frameIndex, encoder,
                 written, exportErrors, expConfig, blitOutside, res,
                 released, usedFreed, gInterrupted, submitted, delivered,
                 faults, sincePause, popped, rSnap, picture, rCells, rOut,
                 ascii, nKeys>>

\* controlThread, key 'g' or 'G': renderer_.adjustGamma(-0.1f) or (0.1f).
controlThread_Gamma(delta) ==
    /\ pc["ct"] = "loop"
    /\ running
    /\ keys < nKeys
    /\ keys' = keys + 1
    /\ keyLog' = Append(keyLog, [key |-> IF delta < 0 THEN "g" ELSE "G", before |-> rConfig])
    /\ rConfig' = adjustGamma(rConfig, delta)
    /\ UNCHANGED <<nVideo, nAudio, audioEnabled, targetFps, exportEnabled,
                 dRunning, dFinished, dJoinable, dVQ, dAQ, vRead, aRead,
                 cvDV, cvDA, running, paused, pVQ, pAQ, cvPV, cvPA,
                 renderedFrames, droppedFrames, pc, hand, rtDiff, wall,
                 presented, termInit, ring, samplesPlayed, volume,
                 cfgVolume, audioStarted, expOpened, frameIndex, encoder,
                 written, exportErrors, expConfig, blitOutside, res,
                 released, usedFreed, gInterrupted, submitted, delivered,
                 faults, sincePause, popped, rSnap, picture, rCells, rOut,
                 ascii, nKeys>>

\* controlThread, key 'b' or 'B': renderer_.adjustContrast(-0.1f) or (0.1f).
controlThread_Contrast(delta) ==
    /\ pc["ct"] = "loop"
    /\ running
    /\ keys < nKeys
    /\ keys' = keys + 1
    /\ keyLog' = Append(keyLog, [key |-> IF delta < 0 THEN "b" ELSE "B", before |-> rConfig])
    /\ rConfig' = adjustContrast(rConfig, delta)
    /\ UNCHANGED <<nVideo, nAudio, audioEnabled, targetFps, exportEnabled,
                 dRunning, dFinished, dJoinable, dVQ, dAQ, vRead, aRead,
                 cvDV, cvDA, running, paused, pVQ, pAQ, cvPV, cvPA,
                 renderedFrames, droppedFrames, pc, hand, rtDiff, wall,
                 presented, termInit, ring, samplesPlayed, volume,
                 cfgVolume, audioStarted, expOpened, frameIndex, encoder,
                 written, exportErrors, expConfig, blitOutside, res,
                 released, usedFreed, gInterrupted, submitted, delivered,
                 faults, sincePause, popped, rSnap, picture, rCells, rOut,
                 ascii, nKeys>>

\* controlThread, key '1', '2' or '3': cfg = renderer_.config(), cfg.mode = m,
\* renderer_.configure(cfg).
controlThread_Mode(m) ==
    /\ pc["ct"] = "loop"
    /\ running
    /\ keys < nKeys
    /\ keys' = keys + 1
    /\ keyLog' = Append(keyLog, [key |-> CASE m = "Gray" -> "1" [] m = "ANSI256" -> "2" [] m = "TrueColor" -> "3", before |-> rConfig])
    /\ rConfig' = [rConfig EXCEPT !.mode = m]
    /\ UNCHANGED <<nVideo, nAudio, audioEnabled, targetFps, exportEnabled,
                 dRunning, dFinished, dJoinable, dVQ, dAQ, vRead, aRead,
                 cvDV, cvDA, running, paused, pVQ, pAQ, cvPV, cvPA,
                 renderedFrames, droppedFrames, pc, hand, rtDiff, wall,
                 presented, termInit, ring, samplesPlayed, volume,
                 cfgVolume, audioStarted, expOpened, frameIndex, encoder,
                 written, exportErrors, expConfig, blitOutside, res,
                 released, usedFreed, gInterrupted, submitted, delivered,
                 faults, sincePause, popped, rSnap, picture, rCells, rOut,
                 ascii, nKeys>>

\* controlThread, key 'r' or 'R': renderer_.configure(renderer_.config()).
controlThread_Reconfigure ==
    /\ pc["ct"] = "loop"
    /\ running
    /\ keys < nKeys
    /\ keys' = keys + 1
    /\ keyLog' = Append(keyLog, [key |-> "r", before |-> rConfig])
    /\ rConfig' = rConfig
    /\ UNCHANGED <<nVideo, nAudio, audioEnabled, targetFps, exportEnabled,
                 dRunning, dFinished, dJoinable, dVQ, dAQ, vRead, aRead,
                 cvDV, cvDA, running, paused, pVQ, pAQ, cvPV, cvPA,
                 renderedFrames, droppedFrames, pc, hand, rtDiff, wall,
                 presented, termInit, ring, samplesPlayed, volume,
                 cfgVolume, audioStarted, expOpened, frameIndex, encoder,
                 written, exportErrors, expConfig, blitOutside, res,
                 released, usedFreed, gInterrupted, submitted, delivered,
                 faults, sincePause, popped, rSnap, picture, rCells, rOut,
                 ascii, nKeys>>

\* Pipeline::controlThread: "while (running_)" fails and the thread ends.
controlThread_Exit ==
    /\ pc["ct"] = "loop"
    /\ ~running
    /\ pc' = [pc EXCEPT !["ct"] = "done"]
    /\ UNCHANGED <<nVideo, nAudio, audioEnabled, targetFps, exportEnabled,
                 dRunning, dFinished, dJoinable, dVQ, dAQ, vRead, aRead,
                 cvDV, cvDA, running, paused, pVQ, pAQ, cvPV, cvPA,
                 renderedFrames, droppedFrames, hand, rtDiff, wall,
                 presented, termInit, ring, samplesPlayed, volume,
                 cfgVolume, audioStarted, expOpened, frameIndex, encoder,
                 written, exportErrors, expConfig, blitOutside, res,
                 released, usedFreed, gInterrupted, submitted, delivered,
                 faults, sincePause, popped, rConfig, rSnap, picture,
                 rCells, rOut, ascii, nKeys, keys, keyLog>>

\* controlThread: no key to read; sleep 30 ms and test running_ again.
controlThread_Idle ==
    /\ pc["ct"] = "loop"
    /\ running
    /\ UNCHANGED <<nVideo, nAudio, audioEnabled, targetFps, exportEnabled,
                 dRunning, dFinished, dJoinable, dVQ, dAQ, vRead, aRead,
                 cvDV, cvDA, running, paused, pVQ, pAQ, cvPV, cvPA,
                 renderedFrames, droppedFrames, pc, hand, rtDiff, wall,
                 presented, termInit, ring, samplesPlayed, volume,
                 cfgVolume, audioStarted, expOpened, frameIndex, encoder,
                 written, exportErrors, expConfig, blitOutside, res,
                 released, usedFreed, gInterrupted, submitted, delivered,
                 faults, sincePause, popped, rConfig, rSnap, picture,
                 rCells, rOut, ascii, nKeys, keys, keyLog>>

\* A pause key that leaves the volume at the configured one (a faulty
\* variant, to compare with).
PauseVolumeKept(newState) == cfgVolume

\* The volume the pause key sets: newState ? 0.0f : config_.audio.volume.
PauseVolume(newState) == IF newState THEN 0 ELSE cfgVolume

\* controlThread, key ' ': paused_ = !paused_, and with audio enabled
\* audio_.setVolume(paused ? 0 : config_.audio.volume).
controlThread_Space ==
    /\ pc["ct"] = "loop"
    /\ running
    /\ paused' = ~paused
    /\ volume' = IF audioEnabled THEN PauseVolume(~paused) ELSE volume
    /\ sincePause' = 0
    /\ UNCHANGED <<nVideo, nAudio, audioEnabled, targetFps, exportEnabled,
                 dRunning, dFinished, dJoinable, dVQ, dAQ, vRead, aRead,
                 cvDV, cvDA, running, pVQ, pAQ, cvPV, cvPA, renderedFrames,
                 droppedFrames, pc, hand, rtDiff, wall, presented,
                 termInit, ring, samplesPlayed, cfgVolume, audioStarted,
                 expOpened, frameIndex, encoder, written, exportErrors,
                 expConfig, blitOutside, res, released, usedFreed,
                 gInterrupted, submitted, delivered, faults, popped,
                 rConfig, rSnap, picture, rCells, rOut, ascii, nKeys, keys,
                 keyLog>>

\* controlThread, key 'q' or 'Q': running_.store(false), then decoder_.stop()
\* (the steps stop_*), the two notify_all, and break.
controlThread_Quit ==
    /\ pc["ct"] = "loop"
    /\ running
    /\ running' = FALSE
    /\ pc' = [pc EXCEPT !["ct"] = "ds_run"]
    /\ UNCHANGED <<nVideo, nAudio, audioEnabled, targetFps, exportEnabled,
                 dRunning, dFinished, dJoinable, dVQ, dAQ, vRead, aRead,
                 cvDV, cvDA, paused, pVQ, pAQ, cvPV, cvPA, renderedFrames,
                 droppedFrames, hand, rtDiff, wall, presented, termInit,
                 ring, samplesPlayed, volume, cfgVolume, audioStarted,
                 expOpened, frameIndex, encoder, written, exportErrors,
                 expConfig, blitOutside, res, released, usedFreed,
                 gInterrupted, submitted, delivered, faults, sincePause,
                 popped, rConfig, rSnap, picture, rCells, rOut, ascii,
                 nKeys, keys, keyLog>>

\* controlThread after decoder_.stop(): videoCv_.notify_all().
controlThread_NotifyV ==
    /\ pc["ct"] = "q_nv"
    /\ cvPV' = {}
    /\ pc' = [pc EXCEPT !["ct"] = "q_na"]
    /\ UNCHANGED <<nVideo, nAudio, audioEnabled, targetFps, exportEnabled,
                 dRunning, dFinished, dJoinable, dVQ, dAQ, vRead, aRead,
                 cvDV, cvDA, running, paused, pVQ, pAQ, cvPA,
                 renderedFrames, droppedFrames, hand, rtDiff, wall,
                 presented, termInit, ring, samplesPlayed, volume,
                 cfgVolume, audioStarted, expOpened, frameIndex, encoder,
                 written, exportErrors, expConfig, blitOutside, res,
                 released, usedFreed, gInterrupted, submitted, delivered,
                 faults, sincePause, popped, rConfig, rSnap, picture,
                 rCells, rOut, ascii, nKeys, keys, keyLog>>

\* controlThread: asciiCv_.notify_all(), break, and the thread ends.
controlThread_NotifyA ==
    /\ pc["ct"] = "q_na"
    /\ cvPA' = {}
    /\ pc' = [pc EXCEPT !["ct"] = "done"]
    /\ UNCHANGED <<nVideo, nAudio, audioEnabled, targetFps, exportEnabled,
                 dRunning, dFinished, dJoinable, dVQ, dAQ, vRead, aRead,
                 cvDV, cvDA, running, paused, pVQ, pAQ, cvPV,
                 renderedFrames, droppedFrames, hand, rtDiff, wall,
                 presented, termInit, ring, samplesPlayed, volume,
                 cfgVolume, audioStarted, expOpened, frameIndex, encoder,
                 written, exportErrors, expConfig, blitOutside, res,
                 released, usedFreed, gInterrupted, submitted, delivered,
                 faults, sincePause, popped, rConfig, rSnap, picture,
                 rCells, rOut, ascii, nKeys, keys, keyLog>>

\* Pipeline::run joins decodeWorker_, asciiWorker_, renderWorker_ and
\* audioWorker_ in this order (pipeline.cpp:64-67).
JoinPc == [pd |-> "join_pd", at |-> "join_at", rt |-> "join_rt", au |-> "join_au"]
\* A run that joins no worker but the control worker (a faulty variant, to
\* compare with).
AfterJoinNone == [pd |-> "run_end", at |-> "run_end", rt |-> "run_end", au |-> "run_end"]
AfterJoin == [pd |-> "join_at", at |-> "join_rt", rt |-> "join_au", au |-> "run_end"]

\* What Pipeline::initialize sets up, in its order; live mode has no exporter
\* and export mode no terminal.
Components == {"decoder", "terminal", "exporter", "audio"}

\* Pipeline::initialize: config_ = config; decoder_.open, whose failure
\* returns false; in live mode terminal_.initialize(), which returns true
\* whatever tcgetattr answered (terminal_sink.cpp:22-34, :105), so that the
\* "return false" behind it is never taken; in export mode exporter_.open,
\* whose failure returns false; with audio enabled audio_.start, which stores
\* the configuration and whose failure prints a warning and clears
\* config_.audio.enabled; then return true. main returns 1 on false.
Pipeline_initialize ==
    /\ pc["main"] = "start"
    /\ IF "decoder" \in faults
       THEN /\ pc' = [pc EXCEPT !["main"] = "failed"]
            /\ UNCHANGED <<termInit, expOpened, res, audioEnabled, audioStarted, volume>>
       ELSE /\ termInit' = ~exportEnabled
            /\ IF exportEnabled /\ "exporter" \in faults
               THEN /\ \E end \in OpenFailures : res' = PointersAt(end)
                    /\ pc' = [pc EXCEPT !["main"] = "failed"]
                    /\ UNCHANGED <<expOpened, audioEnabled, audioStarted, volume>>
               ELSE /\ expOpened' = exportEnabled
                    /\ res' = PointersAt(IF exportEnabled THEN "opened" ELSE "name")
                    /\ audioEnabled' = (audioEnabled /\ "audio" \notin faults)
                    /\ audioStarted' = (audioEnabled /\ "audio" \notin faults)
                    /\ volume' = IF audioEnabled THEN cfgVolume ELSE volume
                    /\ pc' = [pc EXCEPT !["main"] = "init"]
    /\ UNCHANGED <<nVideo, nAudio, targetFps, exportEnabled, dRunning,
                 dFinished, dJoinable, dVQ, dAQ, vRead, aRead, cvDV, cvDA,
                 running, paused, pVQ, pAQ, cvPV, cvPA, renderedFrames,
                 droppedFrames, hand, rtDiff, wall, presented, ring,
                 samplesPlayed, cfgVolume, frameIndex, encoder, written,
                 exportErrors, expConfig, blitOutside, released, usedFreed,
                 gInterrupted, submitted, delivered, faults, sincePause,
                 popped, rConfig, rSnap, picture, rCells, rOut, ascii,
                 nKeys, keys, keyLog>>

\* main after initialize returned false: "return 1", and ~Pipeline calls
\* Pipeline::stop.
main_Fail ==
    /\ pc["main"] = "failed"
    /\ pc' = [pc EXCEPT !["main"] = "st_run"]
    /\ UNCHANGED <<nVideo, nAudio, audioEnabled, targetFps, exportEnabled,
                 dRunning, dFinished, dJoinable, dVQ, dAQ, vRead, aRead,
                 cvDV, cvDA, running, paused, pVQ, pAQ, cvPV, cvPA,
                 renderedFrames, droppedFrames, hand, rtDiff, wall,
                 presented, termInit, ring, samplesPlayed, volume,
                 cfgVolume, audioStarted, expOpened, frameIndex, encoder,
                 written, exportErrors, expConfig, blitOutside, res,
                 released, usedFreed, gInterrupted, submitted, delivered,
                 faults, sincePause, popped, rConfig, rSnap, picture,
                 rCells, rOut, ascii, nKeys, keys, keyLog>>

\* Pipeline::run: running_.store(true), decoder_.start() (running_ = true and
\* the decode thread), then the five workers.
run_Start ==
    /\ pc["main"] = "init"
    /\ running' = TRUE
    /\ dRunning' = TRUE
    /\ dJoinable' = TRUE
    /\ pc' = [t \in Threads |-> IF t = "main" THEN "join_pd" ELSE "loop"]
    /\ UNCHANGED <<nVideo, nAudio, audioEnabled, targetFps, exportEnabled,
                 dFinished, dVQ, dAQ, vRead, aRead, cvDV, cvDA, paused,
                 pVQ, pAQ, cvPV, cvPA, renderedFrames, droppedFrames, hand,
                 rtDiff, wall, presented, termInit, ring, samplesPlayed,
                 volume, cfgVolume, audioStarted, expOpened, frameIndex,
                 encoder, written, exportErrors, expConfig, blitOutside,
                 res, released, usedFreed, gInterrupted, submitted,
                 delivered, faults, sincePause, popped, rConfig, rSnap,
                 picture, rCells, rOut, ascii, nKeys, keys, keyLog>>

\* Pipeline::run: join of worker w, which returns once w has ended.
run_Join(w) ==
    /\ pc["main"] = JoinPc[w]
    /\ pc[w] = "done"
    /\ pc' = [pc EXCEPT !["main"] = AfterJoin[w]]
    /\ UNCHANGED <<nVideo, nAudio, audioEnabled, targetFps, exportEnabled,
                 dRunning, dFinished, dJoinable, dVQ, dAQ, vRead, aRead,
                 cvDV, cvDA, running, paused, pVQ, pAQ, cvPV, cvPA,
                 renderedFrames, droppedFrames, hand, rtDiff, wall,
                 presented, termInit, ring, samplesPlayed, volume,
                 cfgVolume, audioStarted, expOpened, frameIndex, encoder,
                 written, exportErrors, expConfig, blitOutside, res,
                 released, usedFreed, gInterrupted, submitted, delivered,
                 faults, sincePause, popped, rConfig, rSnap, picture,
                 rCells, rOut, ascii, nKeys, keys, keyLog>>

\* Pipeline::run after the four joins: running_.store(false) and the two
\* notify_all.
run_End ==
    /\ pc["main"] = "run_end"
    /\ running' = FALSE
    /\ cvPV' = {}
    /\ cvPA' = {}
    /\ pc' = [pc EXCEPT !["main"] = "join_ct"]
    /\ UNCHANGED <<nVideo, nAudio, audioEnabled, targetFps, exportEnabled,
                 dRunning, dFinished, dJoinable, dVQ, dAQ, vRead, aRead,
                 cvDV, cvDA, paused, pVQ, pAQ, renderedFrames,
                 droppedFrames, hand, rtDiff, wall, presented, termInit,
                 ring, samplesPlayed, volume, cfgVolume, audioStarted,
                 expOpened, frameIndex, encoder, written, exportErrors,
                 expConfig, blitOutside, res, released, usedFreed,
                 gInterrupted, submitted, delivered, faults, sincePause,
                 popped, rConfig, rSnap, picture, rCells, rOut, ascii,
                 nKeys, keys, keyLog>>

\* Pipeline::run: join of controlWorker_; run returns, main returns 0 and
\* ~Pipeline calls Pipeline::stop.
run_JoinControl ==
    /\ pc["main"] = "join_ct"
    /\ pc["ct"] = "done"
    /\ pc' = [pc EXCEPT !["main"] = "st_run"]
    /\ UNCHANGED <<nVideo, nAudio, audioEnabled, targetFps, exportEnabled,
                 dRunning, dFinished, dJoinable, dVQ, dAQ, vRead, aRead,
                 cvDV, cvDA, running, paused, pVQ, pAQ, cvPV, cvPA,
                 renderedFrames, droppedFrames, hand, rtDiff, wall,
                 presented, termInit, ring, samplesPlayed, volume,
                 cfgVolume, audioStarted, expOpened, frameIndex, encoder,
                 written, exportErrors, expConfig, blitOutside, res,
                 released, usedFreed, gInterrupted, submitted, delivered,
                 faults, sincePause, popped, rConfig, rSnap, picture,
                 rCells, rOut, ascii, nKeys, keys, keyLog>>

\* Pipeline::stop: running_.store(false), then decoder_.stop() (the steps stop_*).
pstop_Running ==
    /\ pc["main"] = "st_run"
    /\ running' = FALSE
    /\ pc' = [pc EXCEPT !["main"] = "ds_run"]
    /\ UNCHANGED <<nVideo, nAudio, audioEnabled, targetFps, exportEnabled,
                 dRunning, dFinished, dJoinable, dVQ, dAQ, vRead, aRead,
                 cvDV, cvDA, paused, pVQ, pAQ, cvPV, cvPA, renderedFrames,
                 droppedFrames, hand, rtDiff, wall, presented, termInit,
                 ring, samplesPlayed, volume, cfgVolume, audioStarted,
                 expOpened, frameIndex, encoder, written, exportErrors,
                 expConfig, blitOutside, res, released, usedFreed,
                 gInterrupted, submitted, delivered, faults, sincePause,
                 popped, rConfig, rSnap, picture, rCells, rOut, ascii,
                 nKeys, keys, keyLog>>

\* Pipeline::stop after decoder_.stop(): the two notify_all; no worker is
\* joinable any more (run joined them all).
pstop_Notify ==
    /\ pc["main"] = "st_nv"
    /\ cvPV' = {}
    /\ cvPA' = {}
    /\ pc' = [pc EXCEPT !["main"] = "teardown"]
    /\ UNCHANGED <<nVideo, nAudio, audioEnabled, targetFps, exportEnabled,
                 dRunning, dFinished, dJoinable, dVQ, dAQ, vRead, aRead,
                 cvDV, cvDA, running, paused, pVQ, pAQ, renderedFrames,
                 droppedFrames, hand, rtDiff, wall, presented, termInit,
                 ring, samplesPlayed, volume, cfgVolume, audioStarted,
                 expOpened, frameIndex, encoder, written, exportErrors,
                 expConfig, blitOutside, res, released, usedFreed,
                 gInterrupted, submitted, delivered, faults, sincePause,
                 popped, rConfig, rSnap, picture, rCells, rOut, ascii,
                 nKeys, keys, keyLog>>

\* Pipeline::stop: terminal_.teardown().
pstop_Teardown ==
    /\ pc["main"] = "teardown"
    /\ termInit' = FALSE
    /\ pc' = [pc EXCEPT !["main"] = "audio_stop"]
    /\ UNCHANGED <<nVideo, nAudio, audioEnabled, targetFps, exportEnabled,
                 dRunning, dFinished, dJoinable, dVQ, dAQ, vRead, aRead,
                 cvDV, cvDA, running, paused, pVQ, pAQ, cvPV, cvPA,
                 renderedFrames, droppedFrames, hand, rtDiff, wall,
                 presented, ring, samplesPlayed, volume, cfgVolume,
                 audioStarted, expOpened, frameIndex, encoder, written,
                 exportErrors, expConfig, blitOutside, res, released,
                 usedFreed, gInterrupted, submitted, delivered, faults,
                 sincePause, popped, rConfig, rSnap, picture, rCells, rOut,
                 ascii, nKeys, keys, keyLog>>

\* Pipeline::stop: audio_.stop() stops the device and clears the ring.
pstop_AudioStop ==
    /\ pc["main"] = "audio_stop"
    /\ audioStarted' = FALSE
    /\ ring' = 0
    /\ pc' = [pc EXCEPT !["main"] = "exp_close"]
    /\ UNCHANGED <<nVideo, nAudio, audioEnabled, targetFps, exportEnabled,
                 dRunning, dFinished, dJoinable, dVQ, dAQ, vRead, aRead,
                 cvDV, cvDA, running, paused, pVQ, pAQ, cvPV, cvPA,
                 renderedFrames, droppedFrames, hand, rtDiff, wall,
                 presented, termInit, samplesPlayed, volume, cfgVolume,
                 expOpened, frameIndex, encoder, written, exportErrors,
                 expConfig, blitOutside, res, released, usedFreed,
                 gInterrupted, submitted, delivered, faults, sincePause,
                 popped, rConfig, rSnap, picture, rCells, rOut, ascii,
                 nKeys, keys, keyLog>>

\* Pipeline::stop: exporter_.close(): av_write_trailer when opened, then
\* avcodec_free_context frees the encoder with the frames it still holds;
\* no avcodec_send_frame(nullptr) and no avcodec_receive_packet before it.
\* Every pointer that is not null is released; a close that meets a dangling
\* pointer is undefined: it returns, or the process is ended there.
pstop_ExporterClose ==
    /\ pc["main"] = "exp_close"
    /\ expOpened' = FALSE
    /\ encoder' = <<>>
    /\ res' = ClosePointers(res)
    /\ released' = CloseReleased(res, released)
    /\ usedFreed' = usedFreed \cup CloseUses(res)
    /\ \E ended \in (IF CloseUndefined(res) THEN BOOLEAN ELSE {FALSE}) :
         pc' = IF ended THEN [t \in Threads |-> "aborted"]
                        ELSE [pc EXCEPT !["main"] = "exited"]
    /\ UNCHANGED <<nVideo, nAudio, audioEnabled, targetFps, exportEnabled,
                 dRunning, dFinished, dJoinable, dVQ, dAQ, vRead, aRead,
                 cvDV, cvDA, running, paused, pVQ, pAQ, cvPV, cvPA,
                 renderedFrames, droppedFrames, hand, rtDiff, wall,
                 presented, termInit, ring, samplesPlayed, volume,
                 cfgVolume, audioStarted, frameIndex, written,
                 exportErrors, expConfig, blitOutside, gInterrupted,
                 submitted, delivered, faults, sincePause, popped, rConfig,
                 rSnap, picture, rCells, rOut, ascii, nKeys, keys, keyLog>>

\* ~Pipeline after Pipeline::stop has returned: the members are destroyed,
\* and ~Exporter calls close() on exporter_ once more.
Exporter_destructor ==
    /\ pc["main"] = "exited"
    /\ expOpened' = FALSE
    /\ encoder' = <<>>
    /\ res' = ClosePointers(res)
    /\ released' = CloseReleased(res, released)
    /\ usedFreed' = usedFreed \cup CloseUses(res)
    /\ \E ended \in (IF CloseUndefined(res) THEN BOOLEAN ELSE {FALSE}) :
         pc' = IF ended THEN [t \in Threads |-> "aborted"]
                        ELSE [pc EXCEPT !["main"] = "destroyed"]
    /\ UNCHANGED <<nVideo, nAudio, audioEnabled, targetFps, exportEnabled,
                 dRunning, dFinished, dJoinable, dVQ, dAQ, vRead, aRead,
                 cvDV, cvDA, running, paused, pVQ, pAQ, cvPV, cvPA,
                 renderedFrames, droppedFrames, hand, rtDiff, wall,
                 presented, termInit, ring, samplesPlayed, volume,
                 cfgVolume, audioStarted, frameIndex, written,
                 exportErrors, expConfig, blitOutside, gInterrupted,
                 submitted, delivered, faults, sincePause, popped, rConfig,
                 rSnap, picture, rCells, rOut, ascii, nKeys, keys, keyLog>>

\* main.cpp handleSignal, installed for SIGINT and SIGTERM before the pipeline
\* is built: it stores 1 in gInterrupted and returns to the interrupted thread.
\* The signal may arrive whenever the process is alive.
handleSignal ==
    /\ pc["main"] # "exited"
    /\ gInterrupted' = 1
    /\ UNCHANGED <<nVideo, nAudio, audioEnabled, targetFps, exportEnabled,
                 dRunning, dFinished, dJoinable, dVQ, dAQ, vRead, aRead,
                 cvDV, cvDA, running, paused, pVQ, pAQ, cvPV, cvPA,
                 renderedFrames, droppedFrames, pc, hand, rtDiff, wall,
                 presented, termInit, ring, samplesPlayed, volume,
                 cfgVolume, audioStarted, expOpened, frameIndex, encoder,
                 written, exportErrors, expConfig, blitOutside, res,
                 released, usedFreed, submitted, delivered, faults,
                 sincePause, popped, rConfig, rSnap, picture, rCells, rOut,
                 ascii, nKeys, keys, keyLog>>

\* The predicate of the wait the thread t is parked in.
WaitPred(t) ==
    CASE pc[t] = "pushV_wait" -> PushVideoPred
      [] pc[t] = "pushA_wait" -> PushAudioPred
      [] t = "pd" /\ pc[t] = "pop_wait" -> PopVideoPred
      [] t = "au" /\ pc[t] = "pop_wait" -> PopAudioPred
      [] t = "at" /\ pc[t] = "wait_wait" -> pVQ # <<>> \/ ~running
      [] t = "rt" /\ pc[t] = "wait_wait" -> pAQ # <<>> \/ ~running
      [] OTHER -> FALSE

\* A wait may return without a notify (the standard allows spurious wakeups;
\* it does not promise them): the thread tests its predicate again. A wakeup
\* under a false predicate parks the thread again and changes nothing, so only
\* the wakeups under a true predicate are steps.
SpuriousWakeup(t) ==
    /\ t \in cvDV \cup cvDA \cup cvPV \cup cvPA
    /\ WaitPred(t)
    /\ cvDV' = cvDV \ {t}
    /\ cvDA' = cvDA \ {t}
    /\ cvPV' = cvPV \ {t}
    /\ cvPA' = cvPA \ {t}
    /\ UNCHANGED <<nVideo, nAudio, audioEnabled, targetFps, exportEnabled,
                 dRunning, dFinished, dJoinable, dVQ, dAQ, vRead, aRead,
                 running, paused, pVQ, pAQ, renderedFrames, droppedFrames,
                 pc, hand, rtDiff, wall, presented, termInit, ring,
                 samplesPlayed, volume, cfgVolume, audioStarted, expOpened,
                 frameIndex, encoder, written, exportErrors, expConfig,
                 blitOutside, res, released, usedFreed, gInterrupted,
                 submitted, delivered, faults, sincePause, popped, rConfig,
                 rSnap, picture, rCells, rOut, ascii, nKeys, keys, keyLog>>

\* --------------------------------------------------- specifications
\* The state once Pipeline::initialize has returned true for an input of nv
\* video and na audio frames: nothing runs yet, the terminal is initialized
\* in live mode, the exporter opened in export mode, the audio device
\* started when audio is enabled.
InitPipelineAt(nv, na, ae, ex, fps, vol) ==
    /\ nVideo = nv /\ nAudio = na
    /\ audioEnabled = ae /\ exportEnabled = ex /\ targetFps = fps
    /\ dRunning = FALSE /\ dFinished = FALSE /\ dJoinable = FALSE
    /\ dVQ = <<>> /\ dAQ = <<>> /\ vRead = 0 /\ aRead = 0
    /\ cvDV = {} /\ cvDA = {} /\ cvPV = {} /\ cvPA = {}
    /\ running = FALSE /\ paused = FALSE
    /\ pVQ = <<>> /\ pAQ = <<>>
    /\ renderedFrames = 0 /\ droppedFrames = 0
    /\ pc = [t \in Threads |-> IF t = "main" THEN "init" ELSE "idle"]
    /\ hand = [t \in Threads |-> NoFrame]
    /\ rtDiff = 0 /\ wall = 0
    /\ presented = <<>>
    /\ termInit = ~ex
    /\ ring = 0 /\ samplesPlayed = 0
    /\ cfgVolume = vol
    /\ volume = IF ae THEN vol ELSE DefaultVolume
    /\ audioStarted = ae
    /\ expOpened = ex /\ frameIndex = 0
    /\ ExporterAfterInit(ex)
    /\ encoder = <<>> /\ written = <<>> /\ exportErrors = 0
    /\ submitted = <<>> /\ delivered = 0
    /\ faults = {}
    /\ gInterrupted = 0
    /\ sincePause = 0 /\ popped = 0

\* The same with --volume ConfiguredVolume.
InitPipeline(nv, na, ae, ex, fps) ==
    InitPipelineAt(nv, na, ae, ex, fps, ConfiguredVolume)

\* The state before Pipeline::initialize, with the configuration main built
\* from the command line and the components flt about to fail: the members
\* as their constructors leave them.
Constructed(nv, na, ae, ex, flt) ==
    /\ nVideo = nv /\ nAudio = na
    /\ audioEnabled = ae /\ exportEnabled = ex /\ targetFps = 0
    /\ dRunning = FALSE /\ dFinished = FALSE /\ dJoinable = FALSE
    /\ dVQ = <<>> /\ dAQ = <<>> /\ vRead = 0 /\ aRead = 0
    /\ cvDV = {} /\ cvDA = {} /\ cvPV = {} /\ cvPA = {}
    /\ running = FALSE /\ paused = FALSE
    /\ pVQ = <<>> /\ pAQ = <<>>
    /\ renderedFrames = 0 /\ droppedFrames = 0
    /\ pc = [t \in Threads |-> IF t = "main" THEN "start" ELSE "idle"]
    /\ hand = [t \in Threads |-> NoFrame]
    /\ rtDiff = 0 /\ wall = 0
    /\ presented = <<>>
    /\ termInit = FALSE
    /\ ring = 0 /\ samplesPlayed = 0
    /\ cfgVolume = ConfiguredVolume
    /\ volume = DefaultVolume
    /\ audioStarted = FALSE
    /\ expOpened = FALSE /\ frameIndex = 0
    /\ ExporterAfterInit(FALSE)
    /\ encoder = <<>> /\ written = <<>> /\ exportErrors = 0
    /\ submitted = <<>> /\ delivered = 0
    /\ faults = flt
    /\ gInterrupted = 0
    /\ sincePause = 0 /\ popped = 0

\* ExportConfig without --export-grid and --export-font: the renderer's grid
\* (main.cpp:225-226) and the 8 x 16 font (exporter.hpp:21-22).
ExportDefaults(conf) ==
    [gridCols |-> conf.gridCols, gridRows |-> conf.gridRows, fontW |-> 8, fontH |-> 16]

\* The renderer once Pipeline::initialize has configured it with conf, the
\* picture pic in the input's frames, n renderer keys on standard input and
\* the export configuration ecfg.
InitRendererExport(conf, pic, n, ecfg) ==
    /\ rConfig = conf /\ rSnap = conf
    /\ picture = pic
    /\ rCells = <<>> /\ rOut = <<>>
    /\ ascii = NoAscii
    /\ nKeys = n /\ keys = 0 /\ keyLog = <<>>
    /\ expConfig = ecfg /\ blitOutside = {}

\* The same without --export-grid and --export-font.
InitRendererKeys(conf, pic, n) ==
    InitRendererExport(conf, pic, n, ExportDefaults(conf))

\* The same with MaxKeys keys.
InitRenderer(conf, pic) == InitRendererKeys(conf, pic, MaxKeys)

\* RendererConfig's defaults (ascii_renderer.hpp:12-20) on the model's grid.
DefaultConfig ==
    [mode |-> "Gray", dither |-> "Bayer4", halfBlock |-> FALSE,
     gridCols |-> RenderCols, gridRows |-> RenderRows, gamma |-> 22, contrast |-> 10]

\* The pictures of w x h black or white pixels.
Pixels == {<<0, 0, 0>>, <<255, 255, 255>>}
Pictures(w, h) ==
    {[width |-> w, height |-> h, data |-> d] : d \in [1..(w * h) -> Pixels]}

BlackPicture ==
    [width |-> RenderCols, height |-> RenderRows,
     data |-> [k \in 1..(RenderCols * RenderRows) |-> <<0, 0, 0>>]]

InitWith(nv, na, ae, ex, fps) ==
    InitPipeline(nv, na, ae, ex, fps) /\ InitRenderer(DefaultConfig, BlackPicture)

Stoppers == {"ct", "main"}
JoinedWorkers == {"pd", "at", "rt", "au"}

\* -- The whole pipeline in live mode on the wall clock (audio disabled, an
\* -- input without audio stream), of up to MaxVideo video frames.
Init == \E nv \in 0..MaxVideo : InitWith(nv, 0, FALSE, FALSE, 0)

\* The steps that need no key and no spurious wakeup. controlThread_Exit is
\* no disjunct: running_ turns false in the quit branch of the control thread
\* itself, or in run after the join of the ASCII worker, which ends only
\* once running_ is false.
Step ==
    \/ run_Start \/ (\E w \in JoinedWorkers : run_Join(w))
    \/ run_End \/ run_JoinControl
    \/ pstop_Running \/ pstop_Notify \/ pstop_Teardown \/ pstop_AudioStop
    \/ pstop_ExporterClose
    \/ decodeLoop_Read \/ pushVideoFrame
    \/ decodeLoop_Exit \/ decodeLoop_NotifyV \/ decodeLoop_NotifyA
    \/ \E t \in Stoppers :
         \/ stop_Running(t) \/ stop_Join(t) \/ stop_Finished(t)
         \/ stop_NotifyV(t) \/ stop_NotifyA(t)
    \/ popVideoFrame \/ popVideoFrame_Park
    \/ decodeThread_Push \/ decodeThread_Exit
    \/ asciiThread_Wait \/ asciiThread_Park
    \/ asciiThread_Push \/ asciiThread_Exit
    \/ renderThread_Exit \/ renderThread_Wait \/ renderThread_Park
    \/ renderThread_Pause \/ renderThread_PaceWall
    \/ renderThread_Sleep \/ renderThread_Present
    \/ audioThread_Exit \/ popAudioFrame \/ popAudioFrame_Park
    \/ controlThread_NotifyV \/ controlThread_NotifyA

Next ==
    \/ Step
    \/ controlThread_Idle \/ controlThread_Space \/ controlThread_Quit
    \/ \E t \in Threads : SpuriousWakeup(t)

Spec == Init /\ [][Next]_vars

\* -- The live pipeline on either clock, while no quit key is read: inputs of
\* -- up to SyncVideo video frames, on the wall clock, and on the audio clock
\* -- with up to SyncAudio audio frames, the audio device asking for
\* -- CallbackMs at a time.
SyncInputs ==
    {in \in (0..SyncVideo) \X (0..SyncAudio) \X BOOLEAN : in[3] \/ in[2] = 0}

InitSync == \E in \in SyncInputs : InitWith(in[1], in[2], in[3], FALSE, 0)

StepSync ==
    \/ run_Start \/ (\E w \in JoinedWorkers : run_Join(w))
    \/ decodeLoop_Read \/ pushVideoFrame \/ pushAudioFrame
    \/ decodeLoop_Exit \/ decodeLoop_NotifyV \/ decodeLoop_NotifyA
    \/ popVideoFrame \/ popVideoFrame_Park \/ decodeThread_Push
    \/ asciiThread_Wait \/ asciiThread_Park \/ asciiThread_Push
    \/ renderThread_Wait \/ renderThread_Park \/ renderThread_Pause
    \/ renderThread_PaceAudio \/ renderThread_PaceWall
    \/ renderThread_Sleep \/ renderThread_Present
    \/ popAudioFrame \/ popAudioFrame_Park \/ audioThread_Enqueue
    \/ onData(CallbackFrames)

NextSync ==
    \/ StepSync
    \/ controlThread_Idle
    \/ \E t \in Threads : SpuriousWakeup(t)

SpecSync == InitSync /\ [][NextSync]_vars

\* -- The pipeline under the pause key, while no quit key is read: an input
\* -- of PauseVideo video frames, live on the wall clock and live on the audio
\* -- clock with PauseAudio audio frames, and an exported input of PauseExport
\* -- video frames.
PauseInputs ==
    {<<PauseVideo, 0, FALSE, FALSE>>, <<PauseVideo, PauseAudio, TRUE, FALSE>>,
     <<PauseExport, 0, FALSE, TRUE>>}

InitPause ==
    \E in \in PauseInputs : InitWith(in[1], in[2], in[3], in[4], 0)

NextPause ==
    \/ StepSync
    \/ renderThread_Export
    \/ controlThread_Idle \/ controlThread_Space
    \/ \E t \in Threads : SpuriousWakeup(t)

SpecPause == InitPause /\ [][NextPause]_vars

\* -- The video path from the decoder to the presenter, live on the wall
\* -- clock without keys, on an input of OrderVideo video frames.
InitOrder == InitWith(OrderVideo, 0, FALSE, FALSE, 0)

StepOrder ==
    \/ run_Start \/ (\E w \in JoinedWorkers : run_Join(w))
    \/ decodeLoop_Read \/ pushVideoFrame
    \/ decodeLoop_Exit \/ decodeLoop_NotifyV \/ decodeLoop_NotifyA
    \/ popVideoFrame \/ popVideoFrame_Park \/ decodeThread_Push
    \/ asciiThread_Wait \/ asciiThread_Park \/ asciiThread_Push
    \/ renderThread_Wait \/ renderThread_Park \/ renderThread_Pause
    \/ renderThread_PaceWall \/ renderThread_Sleep \/ renderThread_Present
    \/ popAudioFrame \/ popAudioFrame_Park

NextOrder ==
    \/ StepOrder
    \/ controlThread_Idle
    \/ \E t \in Threads : SpuriousWakeup(t)

SpecOrder == InitOrder /\ [][NextOrder]_vars

\* -- The pipeline in export mode with the quit key: inputs of up to
\* -- ExportVideo video frames, no audio.
InitExport == \E nv \in 0..ExportVideo : InitWith(nv, 0, FALSE, TRUE, 0)

StepExport ==
    \/ run_Start \/ (\E w \in JoinedWorkers : run_Join(w))
    \/ run_End \/ run_JoinControl
    \/ pstop_Running \/ pstop_Notify \/ pstop_Teardown \/ pstop_AudioStop
    \/ pstop_ExporterClose
    \/ decodeLoop_Read \/ pushVideoFrame
    \/ decodeLoop_Exit \/ decodeLoop_NotifyV \/ decodeLoop_NotifyA
    \/ \E t \in Stoppers :
         \/ stop_Running(t) \/ stop_Join(t) \/ stop_Finished(t)
         \/ stop_NotifyV(t) \/ stop_NotifyA(t)
    \/ popVideoFrame \/ popVideoFrame_Park
    \/ decodeThread_Push \/ decodeThread_Exit
    \/ asciiThread_Wait \/ asciiThread_Park
    \/ asciiThread_Push \/ asciiThread_Exit
    \/ renderThread_Exit \/ renderThread_Wait \/ renderThread_Park
    \/ renderThread_Pause \/ renderThread_Export
    \/ audioThread_Exit \/ popAudioFrame \/ popAudioFrame_Park
    \/ controlThread_NotifyV \/ controlThread_NotifyA

NextExport ==
    \/ StepExport
    \/ controlThread_Idle \/ controlThread_Quit
    \/ \E t \in Threads : SpuriousWakeup(t)

SpecExport == InitExport /\ [][NextExport]_vars

\* -- The pipeline in export mode under the pause key, while no quit key is
\* -- read: an input of EncodeVideo video frames.
InitEncode == InitWith(EncodeVideo, 0, FALSE, TRUE, 0)

NextEncode ==
    \/ run_Start \/ (\E w \in JoinedWorkers : run_Join(w))
    \/ decodeLoop_Read \/ pushVideoFrame
    \/ decodeLoop_Exit \/ decodeLoop_NotifyV \/ decodeLoop_NotifyA
    \/ popVideoFrame \/ popVideoFrame_Park \/ decodeThread_Push
    \/ asciiThread_Wait \/ asciiThread_Park \/ asciiThread_Push
    \/ renderThread_Wait \/ renderThread_Park \/ renderThread_Pause
    \/ renderThread_Export
    \/ popAudioFrame \/ popAudioFrame_Park
    \/ controlThread_Idle \/ controlThread_Space
    \/ \E t \in Threads : SpuriousWakeup(t)

SpecEncode == InitEncode /\ [][NextEncode]_vars

\* -- Pipeline::initialize and the run that follows it, no key pressed: an
\* -- input of InitVideo video and InitAudio audio frames, live with and
\* -- without audio and exported, with no component or one component of
\* -- those the mode uses failing.
InitInputs ==
    {in \in BOOLEAN \X BOOLEAN \X ({{}} \cup {{c} : c \in Components}) :
        /\ in[2] => ~in[1]
        /\ "audio" \in in[3] => in[1]
        /\ "terminal" \in in[3] => ~in[2]
        /\ "exporter" \in in[3] => in[2]}

InitInit ==
    \E in \in InitInputs :
        /\ Constructed(InitVideo, IF in[1] THEN InitAudio ELSE 0, in[1], in[2], in[3])
        /\ InitRenderer(DefaultConfig, BlackPicture)

NextInit ==
    \/ Pipeline_initialize \/ main_Fail
    \/ pstop_Running \/ pstop_Notify \/ pstop_Teardown \/ pstop_AudioStop
    \/ pstop_ExporterClose
    \/ stop_Running("main") \/ stop_Join("main") \/ stop_Finished("main")
    \/ stop_NotifyV("main") \/ stop_NotifyA("main")
    \/ StepSync
    \/ renderThread_Export
    \/ controlThread_Idle
    \/ \E t \in Threads : SpuriousWakeup(t)

SpecInit == InitInit /\ [][NextInit]_vars

\* -- The pipeline from Pipeline::run to the end of Pipeline::stop, ended by
\* -- the quit key: live on the wall clock with StopVideo video frames, live
\* -- with sound only (StopSound audio frames), and exported with StopExport
\* -- video frames.
InitStop ==
    \/ InitWith(StopVideo, 0, FALSE, FALSE, 0)
    \/ InitWith(0, StopSound, TRUE, FALSE, 0)
    \/ InitWith(StopExport, 0, FALSE, TRUE, 0)

NextStop ==
    \/ Step
    \/ pushAudioFrame \/ audioThread_Enqueue \/ onData(CallbackFrames)
    \/ renderThread_Export
    \/ controlThread_Idle \/ controlThread_Quit
    \/ \E t \in Threads : SpuriousWakeup(t)

SpecStop == InitStop /\ [][NextStop]_vars

\* -- The live pipeline on the audio clock under the pause key, while no quit
\* -- key is read: VolumeVideo video and VolumeAudio audio frames, with
\* -- --volume 0 and with --volume ConfiguredVolume.
InitVolume ==
    \E vol \in {0, ConfiguredVolume} :
        /\ InitPipelineAt(VolumeVideo, VolumeAudio, TRUE, FALSE, 0, vol)
        /\ InitRenderer(DefaultConfig, BlackPicture)

NextVolume ==
    \/ run_Start \/ (\E w \in JoinedWorkers : run_Join(w))
    \/ decodeLoop_Read \/ pushVideoFrame \/ pushAudioFrame
    \/ decodeLoop_Exit \/ decodeLoop_NotifyV \/ decodeLoop_NotifyA
    \/ popVideoFrame \/ popVideoFrame_Park \/ decodeThread_Push
    \/ asciiThread_Wait \/ asciiThread_Park \/ asciiThread_Push
    \/ renderThread_Wait \/ renderThread_Park \/ renderThread_Pause
    \/ renderThread_PaceAudio \/ renderThread_Sleep \/ renderThread_Present
    \/ popAudioFrame \/ popAudioFrame_Park \/ audioThread_Enqueue
    \/ onData(CallbackFrames)
    \/ controlThread_Idle \/ controlThread_Space
    \/ \E t \in Threads : SpuriousWakeup(t)

SpecVolume == InitVolume /\ [][NextVolume]_vars

\* -- The live pipeline on the wall clock under SIGINT and SIGTERM, no key
\* -- pressed: inputs of up to SignalVideo video frames.
InitSignal == \E nv \in 0..SignalVideo : InitWith(nv, 0, FALSE, FALSE, 0)

NextSignal ==
    \/ StepOrder
    \/ handleSignal
    \/ controlThread_Idle
    \/ \E t \in Threads : SpuriousWakeup(t)

SpecSignal == InitSignal /\ [][NextSignal]_vars

\* -- The decoder, its two consumers and the quit key, on inputs long enough
\* -- to fill a queue: QueueVideo video frames, or QueueAudio audio frames, or
\* -- a short mixed input. The ASCII and render workers take no step: they
\* -- touch neither the decoder nor its queues.
QueueInputs ==
    {<<QueueVideo, 0>>, <<0, QueueAudio>>} \cup ((0..QueueMixed) \X (0..QueueMixed))

InitQueue == \E in \in QueueInputs : InitWith(in[1], in[2], FALSE, FALSE, 0)

StepQueue ==
    \/ run_Start \/ (\E w \in JoinedWorkers : run_Join(w))
    \/ decodeLoop_Read
    \/ pushVideoFrame \/ pushVideoFrame_Park
    \/ pushAudioFrame \/ pushAudioFrame_Park
    \/ decodeLoop_Exit \/ decodeLoop_NotifyV \/ decodeLoop_NotifyA
    \/ stop_Running("ct") \/ stop_Join("ct") \/ stop_Finished("ct")
    \/ stop_NotifyV("ct") \/ stop_NotifyA("ct")
    \/ popVideoFrame \/ popVideoFrame_Park
    \/ decodeThread_Push \/ decodeThread_Exit
    \/ audioThread_Exit \/ popAudioFrame \/ popAudioFrame_Park
    \/ audioThread_Enqueue
    \/ controlThread_NotifyV \/ controlThread_NotifyA

NextQueue ==
    \/ StepQueue
    \/ controlThread_Idle \/ controlThread_Quit
    \/ \E t \in Threads : SpuriousWakeup(t)

SpecQueue == InitQueue /\ [][NextQueue]_vars

\* -- The video path with a presenter that consumes nothing: the decoder, the
\* -- decode worker and the ASCII worker on an input of PathVideo frames.
InitVideoPath == InitWith(PathVideo, 0, FALSE, FALSE, 0)

NextVideoPath ==
    \/ run_Start
    \/ decodeLoop_Read \/ pushVideoFrame \/ pushVideoFrame_Park
    \/ decodeLoop_Exit \/ decodeLoop_NotifyV \/ decodeLoop_NotifyA
    \/ popVideoFrame \/ popVideoFrame_Park \/ decodeThread_Push
    \/ asciiThread_Wait \/ asciiThread_Park \/ asciiThread_Push
    \/ \E t \in Threads : SpuriousWakeup(t)

SpecVideoPath == InitVideoPath /\ [][NextVideoPath]_vars

\* -- One frame through the ASCII worker, render taken cell by cell, while
\* -- the control worker reads up to MaxKeys renderer keys: every mode and
\* -- dither of the command line, with and without half blocks, on every
\* -- black-and-white picture of one pixel per cell.
InitRender ==
    \E m \in RenderModes, d \in DitherModes, hb \in BOOLEAN :
      \E pic \in Pictures(RenderCols, IF hb THEN 2 * RenderRows ELSE RenderRows) :
        /\ InitPipeline(1, 0, FALSE, FALSE, 0)
        /\ InitRenderer([DefaultConfig EXCEPT !.mode = m, !.dither = d,
                                              !.halfBlock = hb], pic)

NextRender ==
    \/ run_Start
    \/ decodeLoop_Read \/ pushVideoFrame
    \/ popVideoFrame \/ popVideoFrame_Park \/ decodeThread_Push
    \/ asciiThread_Wait \/ asciiThread_Park
    \/ render_Snapshot \/ render_Cell \/ render_String
    \/ asciiThread_PushRendered
    \/ controlThread_Idle
    \/ controlThread_CycleMode \/ controlThread_CycleDither
    \/ (\E delta \in {-1, 1} : controlThread_Gamma(delta))
    \/ (\E delta \in {-1, 1} : controlThread_Contrast(delta))
    \/ (\E m \in RenderModes : controlThread_Mode(m))
    \/ controlThread_Reconfigure

SpecRender == InitRender /\ [][NextRender]_vars

\* -- AsciiRenderer::render as a function of the frame and the configuration.
\* The state when the ASCII worker has taken the only frame of the input from
\* videoQueue_ and is about to call render, under the configuration conf and
\* with the picture pic in the frame: the decode worker waits for a second
\* frame, the other workers are at the top of their loops.
Rendering(conf, pic) ==
    /\ nVideo = 1 /\ nAudio = 0
    /\ audioEnabled = FALSE /\ exportEnabled = FALSE /\ targetFps = 0
    /\ dRunning = TRUE /\ dFinished = FALSE /\ dJoinable = TRUE
    /\ dVQ = <<>> /\ dAQ = <<>> /\ vRead = 1 /\ aRead = 0
    /\ cvDV = {"pd"} /\ cvDA = {} /\ cvPV = {} /\ cvPA = {}
    /\ running = TRUE /\ paused = FALSE
    /\ pVQ = <<>> /\ pAQ = <<>>
    /\ renderedFrames = 0 /\ droppedFrames = 0
    /\ pc = [t \in Threads |->
               CASE t = "main" -> "join_pd"
                 [] t = "pd" -> "pop_wait"
                 [] t = "at" -> "render"
                 [] OTHER -> "loop"]
    /\ hand = [t \in Threads |-> IF t = "at" THEN VideoFrame(0) ELSE NoFrame]
    /\ rtDiff = 0 /\ wall = 0
    /\ presented = <<>>
    /\ termInit = TRUE
    /\ ring = 0 /\ samplesPlayed = 0
    /\ cfgVolume = ConfiguredVolume
    /\ volume = DefaultVolume
    /\ audioStarted = FALSE
    /\ expOpened = FALSE /\ frameIndex = 0
    /\ ExporterAfterInit(FALSE)
    /\ encoder = <<>> /\ written = <<>> /\ exportErrors = 0
    /\ submitted = <<>> /\ delivered = 0
    /\ faults = {}
    /\ gInterrupted = 0
    /\ sincePause = 0 /\ popped = 0
    /\ InitRenderer(conf, pic)

\* The pixels of the scenes: black, white and a red.
Shades == << <<0, 0, 0>>, <<255, 255, 255>>, <<200, 10, 10>> >>

\* The picture of w x h pixels whose pixel (x, y) is the shade a*x + b*y + c
\* of the first n shades, counted round: one colour all over, stripes along
\* the rows or the columns, diagonals.
ScenePicture(w, h, n, a, b, c) ==
    [width |-> w, height |-> h,
     data |-> [k \in 1..(w * h) |->
                 Shades[((a * ((k - 1) % w) + b * ((k - 1) \div w) + c) % n) + 1]]]

ScenePictures(w, h) ==
    UNION {{ScenePicture(w, h, n, a, b, c) : a \in 0..1, b \in 0..1, c \in 0..(n - 1)} :
           n \in 1..Len(Shades)}

\* -- render on every scene of 1 or 2 by 1, 2 or 4 pixels, on every grid of
\* -- up to SceneCols x SceneRows cells, in every mode, with and without
\* -- half blocks, under gamma 1.0 and the default dither.
InitScene ==
    \E m \in RenderModes, hb \in BOOLEAN,
       cols \in 1..SceneCols, rows \in 1..SceneRows,
       w \in {1, 2}, h \in {1, 2, 4} :
      \E pic \in ScenePictures(w, h) :
        Rendering([DefaultConfig EXCEPT !.mode = m, !.halfBlock = hb,
                                        !.gridCols = cols, !.gridRows = rows,
                                        !.gamma = 10], pic)


NextScene == render_Snapshot \/ render_Cell \/ render_String

SpecScene == InitScene /\ [][NextScene]_vars

\* -- render in ANSI256 mode on a frame of one pixel and a grid of one cell:
\* -- xterm_index_from_rgb on the colour of every palette entry and on every
\* -- colour whose channels are among ColourLevels.
ColourLevels == {10, 13, 200} \cup {(255 * k) \div ColourSteps : k \in 0..ColourSteps}

PaletteInputs ==
    {xterm_palette[i] : i \in 0..255} \cup (ColourLevels \X ColourLevels \X ColourLevels)

InitPalette ==
    \E c \in PaletteInputs, d \in DitherModes :
        Rendering([DefaultConfig EXCEPT !.mode = "ANSI256", !.dither = d,
                                        !.gridCols = 1, !.gridRows = 1, !.gamma = 10],
                  [width |-> 1, height |-> 1, data |-> <<c>>])

SpecPalette == InitPalette /\ [][NextScene]_vars

\* -- The video path from the decoder to the presenter with render taken
\* -- step by step, live on the wall clock without keys: an input of
\* -- FramesVideo video frames on every grid of up to SceneCols x SceneRows
\* -- cells.
InitFrames ==
    \E cols \in 1..SceneCols, rows \in 1..SceneRows :
        /\ InitPipeline(FramesVideo, 0, FALSE, FALSE, 0)
        /\ InitRenderer([DefaultConfig EXCEPT !.gridCols = cols, !.gridRows = rows],
                        BlackPicture)

NextFrames ==
    \/ run_Start \/ (\E w \in JoinedWorkers : run_Join(w))
    \/ decodeLoop_Read \/ pushVideoFrame
    \/ decodeLoop_Exit \/ decodeLoop_NotifyV \/ decodeLoop_NotifyA
    \/ popVideoFrame \/ popVideoFrame_Park \/ decodeThread_Push
    \/ asciiThread_Wait \/ asciiThread_Park
    \/ render_Snapshot \/ render_Cell \/ render_String
    \/ asciiThread_PushRendered
    \/ renderThread_Wait \/ renderThread_Park \/ renderThread_Pause
    \/ renderThread_PaceWall \/ renderThread_Sleep \/ renderThread_Present
    \/ popAudioFrame \/ popAudioFrame_Park
    \/ controlThread_Idle
    \/ \E t \in Threads : SpuriousWakeup(t)

SpecFrames == InitFrames /\ [][NextFrames]_vars

\* -- The control worker alone, reading KeyPresses renderer keys in every
\* -- order, after each --mode and --dither and some --gamma and --contrast
\* -- of the command line.
\* --gamma and --contrast as std::stof reads them (main.cpp:154-161), in
\* tenths: the defaults, the ends of the keys' ranges and values on both
\* sides of them.
ToneOptions ==
    {<<22, 10>>, <<5, 2>>, <<40, 30>>, <<3, 10>>, <<45, 10>>, <<22, 1>>, <<22, 35>>}

InitKeys ==
    \E m \in RenderModes, d \in DitherModes, tone \in ToneOptions :
        /\ InitPipeline(1, 0, FALSE, FALSE, 0)
        /\ InitRendererKeys([DefaultConfig EXCEPT !.mode = m, !.dither = d,
                                                  !.gamma = tone[1],
                                                  !.contrast = tone[2]],
                            BlackPicture, KeyPresses)

NextKeys ==
    \/ run_Start
    \/ controlThread_Idle
    \/ controlThread_CycleMode \/ controlThread_CycleDither
    \/ (\E delta \in {-1, 1} : controlThread_Gamma(delta))
    \/ (\E delta \in {-1, 1} : controlThread_Contrast(delta))
    \/ (\E m \in RenderModes : controlThread_Mode(m))
    \/ controlThread_Reconfigure

SpecKeys == InitKeys /\ [][NextKeys]_vars

\* -- The presenter's pacing, live and without keys: an input of PaceVideo
\* -- video frames on the wall clock, and with PaceAudio audio frames on the
\* -- audio clock, each paced by pts and paced by --fps PaceFps.
InitPace ==
    \E ae \in BOOLEAN, fps \in {0, PaceFps} :
        InitWith(PaceVideo, IF ae THEN PaceAudio ELSE 0, ae, FALSE, fps)

SpecPace == InitPace /\ [][NextSync]_vars

\* -- render on a frame of one gray pixel, every cell of a grid of DitherCols
\* -- x DitherRows cells sampling that pixel: every mode and dither, under
\* -- gamma 1.0 and contrast 1.0.
\* Gray levels on both sides of the levels where a threshold of the matrices
\* starts to tell.
GrayLevels == {0, 16, 95, 96, 128, 220, 240, 255}

InitDither ==
    \E m \in RenderModes, d \in DitherModes, v \in GrayLevels :
        Rendering([DefaultConfig EXCEPT !.mode = m, !.dither = d,
                                        !.gridCols = DitherCols,
                                        !.gridRows = DitherRows, !.gamma = 10],
                  [width |-> 1, height |-> 1, data |-> << <<v, v, v>> >>])

SpecDither == InitDither /\ [][NextScene]_vars

\* -- The presenter from the first frame it takes to the end of the run,
\* -- under the pause key and the quit key.
\* The state when the whole input of nv video and na audio frames is decoded
\* and rendered and the presenter has not yet taken a frame: the decoder
\* thread, the decode worker and the audio pump have ended at the end of the
\* input, every AsciiFrame is in asciiQueue_, every sample in the ring, the
\* ASCII worker is parked on videoCv_ and main is in its join.
Queued(nv, na, ae, ex) ==
    /\ nVideo = nv /\ nAudio = na
    /\ audioEnabled = ae /\ exportEnabled = ex /\ targetFps = 0
    /\ dRunning = FALSE /\ dFinished = TRUE /\ dJoinable = TRUE
    /\ dVQ = <<>> /\ dAQ = <<>> /\ vRead = nv /\ aRead = na
    /\ cvDV = {} /\ cvDA = {} /\ cvPV = {"at"} /\ cvPA = {}
    /\ running = TRUE /\ paused = FALSE
    /\ pVQ = <<>>
    /\ pAQ = [i \in 1..nv |-> RenderFrame(VideoFrame(i - 1))]
    /\ renderedFrames = 0 /\ droppedFrames = 0
    /\ pc = [t \in Threads |->
               CASE t = "main" -> "join_at"
                 [] t = "at" -> "wait_wait"
                 [] t \in {"rt", "ct"} -> "loop"
                 [] OTHER -> "done"]
    /\ hand = [t \in Threads |-> NoFrame]
    /\ rtDiff = 0 /\ wall = 0
    /\ presented = <<>>
    /\ termInit = ~ex
    /\ ring = na * FrameSamples /\ samplesPlayed = 0
    /\ cfgVolume = ConfiguredVolume
    /\ volume = IF ae THEN ConfiguredVolume ELSE DefaultVolume
    /\ audioStarted = ae
    /\ expOpened = ex /\ frameIndex = 0
    /\ ExporterAfterInit(ex)
    /\ encoder = <<>> /\ written = <<>> /\ exportErrors = 0
    /\ submitted = <<>> /\ delivered = 0
    /\ faults = {}
    /\ gInterrupted = 0
    /\ sincePause = 0 /\ popped = 0

InitAccount ==
    /\ \/ Queued(AccountVideo, 0, FALSE, FALSE)
       \/ Queued(AccountVideo, AccountAudio, TRUE, FALSE)
       \/ Queued(AccountVideo, 0, FALSE, TRUE)
    /\ InitRenderer(DefaultConfig, BlackPicture)

NextAccount ==
    \/ renderThread_Exit \/ renderThread_Wait \/ renderThread_Park
    \/ renderThread_Pause \/ renderThread_PaceAudio \/ renderThread_PaceWall
    \/ renderThread_Sleep \/ renderThread_Present \/ renderThread_Export
    \/ onData(CallbackFrames)
    \/ controlThread_Idle \/ controlThread_Space \/ controlThread_Quit
    \/ controlThread_NotifyV \/ controlThread_NotifyA
    \/ \E t \in Stoppers :
         \/ stop_Running(t) \/ stop_Join(t) \/ stop_Finished(t)
         \/ stop_NotifyV(t) \/ stop_NotifyA(t)
    \/ asciiThread_Wait
    \/ (\E w \in JoinedWorkers : run_Join(w))
    \/ run_End \/ run_JoinControl
    \/ pstop_Running \/ pstop_Notify \/ pstop_Teardown \/ pstop_AudioStop
    \/ pstop_ExporterClose
    \/ \E t \in Threads : SpuriousWakeup(t)

SpecAccount == InitAccount /\ [][NextAccount]_vars

\* -- The presenter exporting an input of BlitVideo frames, rendered on every
\* -- --grid and blitted under every --export-grid of up to BlitCols x
\* -- BlitRows cells, with the default font and with --export-font 2x2.
InitBlit ==
    \E cols \in 1..BlitCols, rows \in 1..BlitRows,
       ecols \in 1..BlitCols, erows \in 1..BlitRows, font \in ExportFonts :
        /\ Queued(BlitVideo, 0, FALSE, TRUE)
        /\ InitRendererExport([DefaultConfig EXCEPT !.gridCols = cols, !.gridRows = rows],
                              BlackPicture, MaxKeys,
                              [gridCols |-> ecols, gridRows |-> erows,
                               fontW |-> font[1], fontH |-> font[2]])

NextBlit ==
    \/ renderThread_Wait \/ renderThread_Park \/ renderThread_Pause
    \/ renderThread_Export
    \/ controlThread_Idle

SpecBlit == InitBlit /\ [][NextBlit]_vars

\* -- The exporter to the end of ~Pipeline: a pipeline whose exporter_.open
\* -- is about to fail, and a presenter with CloseVideo rendered frames in
\* -- front of it, exporting and live.
InitClose ==
    /\ \/ Constructed(CloseVideo, 0, FALSE, TRUE, {"exporter"})
       \/ Queued(CloseVideo, 0, FALSE, TRUE)
       \/ Queued(CloseVideo, 0, FALSE, FALSE)
    /\ InitRenderer(DefaultConfig, BlackPicture)

NextClose ==
    \/ Pipeline_initialize \/ main_Fail
    \/ renderThread_Exit \/ renderThread_Wait \/ renderThread_Park
    \/ renderThread_Pause \/ renderThread_PaceWall
    \/ renderThread_Present \/ renderThread_Export
    \/ controlThread_Idle \/ controlThread_Space \/ controlThread_Quit
    \/ controlThread_NotifyV \/ controlThread_NotifyA
    \/ (\E t \in Stoppers : \/ stop_Running(t) \/ stop_Join(t) \/ stop_Finished(t)
                            \/ stop_NotifyV(t) \/ stop_NotifyA(t))
    \/ asciiThread_Wait
    \/ (\E w \in JoinedWorkers : run_Join(w))
    \/ run_End \/ run_JoinControl
    \/ pstop_Running \/ pstop_Notify \/ pstop_Teardown \/ pstop_AudioStop
    \/ pstop_ExporterClose
    \/ Exporter_destructor
    \/ \E t \in Threads : SpuriousWakeup(t)

SpecClose == InitClose /\ [][NextClose]_vars

\* ---------------------------------------------------------------- claims
\* Pipeline::run has returned (the main thread is past the join of the
\* control worker).
RunReturned ==
    pc["main"] \notin {"start", "failed", "init", "join_pd", "join_at",
                       "join_rt", "join_au", "run_end", "join_ct"}

\* The control thread has read the quit key: it leaves its loop no other way.
QuitRead == pc["ct"] \notin {"idle", "loop"}

\* A thread is blocked in a wait: parked and not notified.
Blocked(t) == t \in cvDV \cup cvDA \cup cvPV \cup cvPA

\* C1: at the end of the input the workers exit and Pipeline::run returns
\* without any key. Were it so, no reachable state would have the decoder at the
\* end of the input, no quit read, run not returned and no step left to any
\* thread but a key press, the control thread's poll or a spurious wakeup.
EofEndsRun ==
    ~(pc["dl"] = "done" /\ dFinished /\ ~QuitRead /\ ~RunReturned /\ ~ENABLED Step)

\* AsciiRenderer::render of the picture when no mutator runs during it:
\* every cell and the terminal string from the configuration conf.
render(pic, conf) ==
    LET cells == RenderCells(pic, conf, conf.gridCols * conf.gridRows)
    IN  [cells |-> cells, terminalString |-> TerminalString(cells, conf)]

\* C2: a mutation during render never affects that render: the frame render
\* returns is the frame of the snapshot taken at its entry.
RenderFromSnapshot ==
    pc["at"] = "rendered"
        => [cells |-> rCells, terminalString |-> rOut] = render(picture, rSnap)

\* C3: no reachable state has the producer blocked in pushVideoFrame while
\* the video queue is below capacity and the consumer blocked in popVideoFrame.
ProducerResumes ==
    ~(/\ pc["dl"] = "pushV_wait" /\ Blocked("dl")
      /\ Len(dVQ) < kMaxVideoQueue
      /\ pc["pd"] = "pop_wait" /\ Blocked("pd"))

\* C4: once the decoder is stopped every blocked waiter returns and
\* Decoder::stop returns. Were it so, no reachable state would have Decoder::stop
\* joining the decode thread, the decode thread blocked in a push, and no
\* step left to the decoder, its consumers or the stopper.
StopReleasesWaiters ==
    ~(/\ pc["ct"] = "ds_join"
      /\ pc["dl"] \in {"pushV_wait", "pushA_wait"} /\ Blocked("dl")
      /\ ~ENABLED StepQueue)

\* The decoded and rendered frames buffered between the decoder and the
\* presenter: the three queues of the video path and the frames in the
\* hands of the workers that feed them.
Buffered ==
    Len(dVQ) + Len(pVQ) + Len(pAQ)
    + Cardinality({t \in {"dl", "pd", "at"} : hand[t] # NoFrame})

\* Three queues of kMaxVideoQueue frames and one frame in each feeder's hands.
PathCapacity == 3 * (kMaxVideoQueue + 1)

\* C5: the frames buffered between the decoder and the presenter never
\* exceed a fixed number, however slowly the presenter consumes.
BufferedBounded == Buffered <= PathCapacity

\* C6: after the quit key every worker exits and Pipeline::run returns.
\* Were it so, no reachable state would have the quit key read, run not
\* returned and no step left to any thread but a spurious wakeup.
QuitEndsRun == ~(QuitRead /\ ~RunReturned /\ ~ENABLED Step)

\* C7: a frame is dropped (droppedFrames + 1, renderedFrames unchanged,
\* nothing presented) exactly when the audio clock is the master and the
\* measured diff = target - clock is below -50 ms; no frame measured below
\* -50 ms on the audio path is presented; nothing is dropped on the wall clock.
DropPolicy ==
    [][/\ (pc["rt"] = "pace" /\ pc'["rt"] # "pace")
          => ((droppedFrames' = droppedFrames + 1 /\ renderedFrames' = renderedFrames
                 /\ presented' = presented /\ pc'["rt"] = "loop")
              <=> (audioEnabled
                   /\ Target(hand["rt"]) - PlaybackTime < -DropBelowMs))
       /\ (droppedFrames' # droppedFrames) => pc["rt"] = "pace"
       /\ (presented' # presented \/ renderedFrames' # renderedFrames)
          => /\ droppedFrames' = droppedFrames
             /\ ~(audioEnabled /\ rtDiff < -DropBelowMs)]_vars

\* C7 witness: on the audio clock the first frame was dropped and the second
\* presented.
DropWitness ==
    audioEnabled /\ droppedFrames = 1 /\ renderedFrames = 1 /\ presented = <<1>>

\* C8 as stated: while paused is true nothing is presented and neither
\* counter advances.
PausedFreezes ==
    [][paused => /\ presented' = presented
                 /\ renderedFrames' = renderedFrames
                 /\ droppedFrames' = droppedFrames]_vars

\* C8 amended: while paused is true the presenter finishes at most one frame,
\* the one that had passed the pause test before paused turned true, and
\* holds every later frame.
PausedAtMostOne == paused => sincePause <= 1

\* C8 witness: paused, and the frame in flight was presented.
PausedWitness == paused /\ sincePause = 1 /\ pc["rt"] = "pause"

\* C9: the decoder's video queue holds 0..8 frames, its audio queue 0..32.
QueueBounds ==
    /\ Len(dVQ) \in 0..kMaxVideoQueue
    /\ Len(dAQ) \in 0..kMaxAudioQueue

\* C9 witness: the video queue is full and the producer waits with the
\* ninth frame.
QueueFullWitness ==
    Len(dVQ) = kMaxVideoQueue /\ pc["dl"] = "pushV_wait" /\ hand["dl"] # NoFrame

\* The decoder is closed: stopped, or at the end of the input.
Closed == dFinished \/ (dJoinable /\ ~dRunning)

InHand(t) == IF hand[t] = NoFrame THEN <<>> ELSE <<hand[t]>>

\* The frames on the video path, from the presenter back to the decoder.
PathFrames ==
    InHand("rt") \o pAQ \o InHand("at") \o pVQ \o InHand("pd") \o dVQ
    \o InHand("dl")

\* C11: frames are never reordered along the video path: from the presenter
\* back to the decoder the path holds consecutive frames of the input, each
\* with the pts the decoder gave it, up to the last frame decoded; the
\* frames presented so far are in the decoder's order and before every frame
\* still on the path; pts never decrease along the path.
FramesInOrder ==
    LET p == PathFrames
    IN  /\ \A i \in 1..Len(p) : p[i].pts = VideoFrame(p[i].id).pts
        /\ \A i \in 1..(Len(p) - 1) :
              p[i + 1].id = p[i].id + 1 /\ p[i].pts <= p[i + 1].pts
        /\ p # <<>> => p[Len(p)].id = vRead - 1
        /\ \A i \in 1..(Len(presented) - 1) : presented[i + 1] = presented[i] + 1
        /\ presented # <<>> => presented[1] = 0
        /\ Len(presented) + Len(p) = vRead

\* C11 witness: every frame of the input was presented.
OrderWitness == Len(presented) = OrderVideo /\ OrderVideo >= 3

\* C12: a SIGINT or SIGTERM delivered while the pipeline runs triggers the
\* orderly shutdown: running becomes false, the workers exit and
\* Pipeline::run returns. So no state has the signal delivered and the run
\* at rest with running still true and Pipeline::run not returned.
InterruptEndsRun ==
    ~(/\ gInterrupted = 1
      /\ running
      /\ ~RunReturned
      /\ ~ENABLED StepOrder)

\* The frames writeFrame returned true for, and the frames whose packet the
\* output has got.
Accepted == {submitted[i].id : i \in {k \in 1..Len(submitted) : submitted[k].ok}}
Written == {written[i].id : i \in 1..Len(written)}

\* C13: Exporter::close drains the encoder before it writes the trailer: when
\* close returns, the packets of every frame writeFrame returned true for
\* and the encoder still held are written to the output.
CloseDrainsEncoder ==
    [][(expOpened /\ ~expOpened')
         => \A i \in 1..Len(encoder) :
               encoder[i].id \in Accepted => encoder[i].id \in Written']_vars

\* C14: in export mode the presenter neither sleeps for pacing nor drops;
\* the frames it popped and took past the pause test are handed to
\* Exporter::writeFrame once each, in pop order (the k-th call gets frame k,
\* the frames still on the path follow), and the k-th frame sent to the
\* encoder carries pts = k.
ExportEveryFrame ==
    exportEnabled =>
      LET p == PathFrames
          sent == encoder \o written
      IN  /\ droppedFrames = 0 /\ presented = <<>>
          /\ pc["rt"] \notin {"pace", "sleep", "present"}
          /\ \A k \in 1..Len(submitted) :
                submitted[k].id = k - 1 /\ submitted[k].pts = k - 1
          /\ renderedFrames = Len(submitted)
          /\ frameIndex = Len(submitted)
          /\ \A i \in 1..Len(p) : p[i].id = Len(submitted) + i - 1
          /\ Len(submitted) + Len(p) = vRead
          /\ \A i \in 1..Len(sent) :
                sent[i].pts = sent[i].id /\ sent[i].id < Len(submitted)

\* Every frame of the input was handed to writeFrame and the encoder took
\* at least two of them.
ExportWitness ==
    /\ Len(submitted) = EncodeVideo
    /\ Len(encoder \o written) >= 2

\* The frames handed to writeFrame whose packet is neither written nor still
\* to come from the encoder.
Lost ==
    {submitted[i].id : i \in 1..Len(submitted)}
      \ ({encoder[i].id : i \in 1..Len(encoder)} \cup Written)

\* A step in which Exporter::writeFrame returns false.
ExportFails ==
    /\ Len(submitted') = Len(submitted) + 1
    /\ ~submitted'[Len(submitted')].ok

\* C15 as stated: a writeFrame that returns false is reported and loses only
\* the frame it was called with; the pipeline continues.
OnlyFailedFrameLost ==
    [][ExportFails =>
          /\ exportErrors' = exportErrors + 1
          /\ Lost' \ Lost \subseteq {hand["rt"].id}
          /\ running' = running]_vars

\* C15, amended: a writeFrame that returns false is reported and costs at
\* most one frame, no packet already written is touched, and the pipeline
\* continues: running is left alone, the frame is counted as rendered, the
\* presenter goes back to its loop, and every frame that later passes the
\* pause test is passed to writeFrame.
ExportFailureContained ==
    /\ [][ExportFails =>
            /\ exportErrors' = exportErrors + 1
            /\ Cardinality(Lost' \ Lost) <= 1
            /\ Written \subseteq Written'
            /\ running' = running
            /\ renderedFrames' = renderedFrames + 1
            /\ pc'["rt"] = "loop"]_vars
    /\ [][(exportErrors > 0 /\ pc["rt"] = "pause" /\ pc'["rt"] \notin {"pause", "done"})
            => pc'["rt"] = "export" /\ hand'["rt"] = hand["rt"]]_vars
    /\ [][(exportErrors > 0 /\ pc["rt"] = "export" /\ pc'["rt"] # "export")
            => /\ Len(submitted') = Len(submitted) + 1
               /\ submitted'[Len(submitted')].id = hand["rt"].id]_vars

\* A writeFrame has failed with an earlier frame in the encoder, and a later
\* frame was passed to writeFrame and accepted.
ExportFailureWitness ==
    /\ running
    /\ \E i \in 1..Len(submitted) :
          /\ ~submitted[i].ok
          /\ \E j \in (i + 1)..Len(submitted) : submitted[j].ok

\* C16: if the audio device fails to start, Pipeline::initialize still
\* succeeds, audio is marked disabled and the presenter paces against the
\* wall clock; a failure of the decoder, of the terminal (live mode) or of the
\* exporter (export mode) makes initialize return false.
InitializeOutcome ==
    /\ [][(pc["main"] = "start" /\ pc'["main"] # "start") =>
            LET fatal == \/ "decoder" \in faults
                         \/ ~exportEnabled /\ "terminal" \in faults
                         \/ exportEnabled /\ "exporter" \in faults
            IN  /\ pc'["main"] = IF fatal THEN "failed" ELSE "init"
                /\ (~fatal /\ audioEnabled /\ "audio" \in faults)
                      => ~audioEnabled' /\ ~audioStarted']_vars
    /\ [][(pc["rt"] = "pace" /\ pc'["rt"] # "pace" /\ "audio" \in faults) =>
            /\ rtDiff' = Target(hand["rt"]) - wall'
            /\ droppedFrames' = droppedFrames]_vars

\* The positions of main in Pipeline::stop once decoder_.stop() has returned,
\* and once terminal_.teardown() has returned.
DecoderStopped == {"st_nv", "teardown", "audio_stop", "exp_close", "exited"}
TornDown == {"audio_stop", "exp_close", "exited"}

\* C17: the shutdown steps happen in order. Once Pipeline::stop is past
\* decoder_.stop(), running is false, the decoder is stopped and every worker
\* has ended and is joined; the terminal is torn down only then, the audio
\* device is stopped only after the teardown and the exporter is closed only
\* after the audio device is stopped. So no frame is presented after the
\* teardown and none is written after the close.
ShutdownOrder ==
    /\ [](pc["main"] \in DecoderStopped =>
            /\ ~running /\ ~dRunning /\ dFinished /\ ~dJoinable
            /\ \A w \in Threads \ {"main"} : pc[w] = "done")
    /\ []((~exportEnabled /\ pc["main"] \notin TornDown) => termInit)
    /\ [](pc["main"] \in TornDown => ~termInit)
    /\ []((audioEnabled /\ pc["main"] \notin {"exp_close", "exited"}) => audioStarted)
    /\ [](pc["main"] \in {"exp_close", "exited"} => ~audioStarted /\ ring = 0)
    /\ []((exportEnabled /\ pc["main"] # "exited") => expOpened)
    /\ [](pc["main"] = "exited" => ~expOpened)
    /\ [][pc["main"] \in TornDown => presented' = presented]_vars
    /\ [][~expOpened => written' = written /\ submitted' = submitted]_vars

\* Pipeline::stop has returned after a run that presented a frame, or wrote a
\* packet, or played sound.
ShutdownWitness ==
    /\ pc["main"] = "exited"
    /\ presented # <<>> \/ written # <<>> \/ samplesPlayed > 0

\* C18: the audio clock playbackTime() is the number of sample frames
\* delivered to the device divided by the sample rate; no enqueue, device
\* callback or setVolume makes it smaller, and no step moves it while the
\* ring is empty (a callback on an empty ring leaves it unchanged). The
\* callbacks never take more than the ring holds.
AudioClock ==
    /\ [](/\ samplesPlayed * Channels = delivered
          /\ PlaybackTime = ((delivered \div Channels) * 1000) \div SampleRate
          /\ ring >= 0)
    /\ [][PlaybackTime' >= PlaybackTime /\ samplesPlayed' >= samplesPlayed]_vars
    /\ [][ring = 0 => samplesPlayed' = samplesPlayed]_vars

\* Sound was delivered, the ring is empty again with the device running, and
\* setVolume has muted the player.
AudioClockWitness ==
    /\ audioStarted /\ samplesPlayed > 0 /\ ring = 0
    /\ volume = 0

\* C19 as stated: with audio enabled the volume is 0 exactly when paused is
\* true, and the configured volume when paused is false.
VolumeZeroIffPaused ==
    audioEnabled => /\ (volume = 0 <=> paused)
                    /\ ~paused => volume = cfgVolume

\* C19, amended: the space key toggles paused; with audio enabled the volume
\* is 0 when paused is true and the configured volume when paused is false
\* (which is 0 too under --volume 0), before and after every key press.
VolumeFollowsPause ==
    /\ [](audioEnabled => volume = IF paused THEN 0 ELSE cfgVolume)
    /\ [][(paused' # paused \/ volume' # volume) =>
            /\ paused' = ~paused
            /\ volume' = IF paused THEN cfgVolume ELSE 0]_vars

\* Paused at a configured volume above 0, with sound already played.
VolumeWitness ==
    /\ audioEnabled /\ paused /\ cfgVolume > 0 /\ volume = 0
    /\ samplesPlayed > 0

\* The places of the glyphs in a terminal string: every token but the
\* cursor-home, the colour escapes and the row ends.
GlyphAt(out) ==
    {i \in 1..Len(out) : Len(out[i]) = 1 /\ out[i][1] \notin {"H", "0m"}}

\* C20: in half-block mode, in every render mode, render writes a background
\* escape before a cell's glyph exactly when the cell is the first of its row
\* or its bg differs from the bg of the cell before it in the row.
BackgroundWhenChanged ==
    (pc["at"] = "rendered" /\ rSnap.halfBlock) =>
        \A i \in GlyphAt(rOut) :
            LET k == Cardinality({j \in GlyphAt(rOut) : j < i})
                first == k % rSnap.gridCols = 0
            IN  (rOut[i - 1][1] = "48;2")
                  <=> (first \/ rCells[k + 1].bg # rCells[k].bg)

\* C21: in TrueColor mode render writes a foreground escape with the cell's
\* R, G and B before a cell's glyph exactly when the cell is the first of its
\* row or its fg differs from the fg of the cell before it in the row: the
\* last cell of the row above never suppresses the escape.
ForegroundWhenChanged ==
    (pc["at"] = "rendered" /\ rSnap.mode = "TrueColor") =>
        \A i \in GlyphAt(rOut) :
            LET k == Cardinality({j \in GlyphAt(rOut) : j < i})
                first == k % rSnap.gridCols = 0
                at == IF rOut[i - 1][1] = "48;2" THEN i - 2 ELSE i - 1
                emitted == rOut[at][1] = "38;2"
            IN  /\ emitted <=> (first \/ rCells[k + 1].fg # rCells[k].fg)
                /\ emitted => rOut[at][2] = unpack_rgb(rCells[k + 1].fg)

\* C21 witness: a finished TrueColor render of two rows or more whose second
\* row starts with the fg the first row ended with, and whose first row holds
\* a cell with the fg of the cell before it and a cell with another.
ForegroundWitness ==
    /\ pc["at"] = "rendered" /\ rSnap.mode = "TrueColor"
    /\ rSnap.gridRows >= 2 /\ rSnap.gridCols >= 2
    /\ rCells[rSnap.gridCols + 1].fg = rCells[rSnap.gridCols].fg
    /\ \E k \in 1..(rSnap.gridCols - 1) : rCells[k + 1].fg # rCells[k].fg

\* The index in the only foreground escape of the string of a finished
\* ANSI256 render of one cell: xterm_index_from_rgb of the cell's fg, which is
\* the palette entry xterm_index_from_rgb found for the pixel.
IndexWritten == rOut[2][2]

OnePixelRendered ==
    /\ pc["at"] = "rendered" /\ rSnap.mode = "ANSI256"
    /\ Len(picture.data) = 1 /\ Len(rCells) = 1

\* C22: for every palette index i, xterm_index_from_rgb of the colour of
\* palette entry i is i.
PaletteRoundTrip ==
    OnePixelRendered =>
        \A i \in 0..255 : picture.data[1] = xterm_palette[i] => IndexWritten = i

\* The cube entries that repeat one of the sixteen base colours.
RepeatedEntries == {16, 46, 51, 196, 201, 226, 231}

\* C22 as amended: xterm_index_from_rgb of the colour of palette entry i is
\* the lowest index whose entry has that colour, which is i for every entry
\* but the seven that repeat a base colour.
PaletteLowestIndex ==
    OnePixelRendered =>
        \A i \in 0..255 :
            picture.data[1] = xterm_palette[i] =>
                /\ xterm_palette[IndexWritten] = xterm_palette[i]
                /\ \A j \in 0..255 :
                      xterm_palette[j] = xterm_palette[i] => IndexWritten <= j
                /\ i \notin RepeatedEntries => IndexWritten = i
                /\ rCells[1].fg = pack_rgb(xterm_palette[i][1], xterm_palette[i][2],
                                           xterm_palette[i][3])

\* C22 witness: the colour of cube entry 196, the red of base entry 9, was
\* looked up and 9 written.
PaletteWitness ==
    OnePixelRendered /\ picture.data[1] = xterm_palette[196] /\ IndexWritten = 9

\* The squared Euclidean distance of palette entry i from the colour c.
SquaredDistance(i, c) ==
    (xterm_palette[i][1] - c[1]) * (xterm_palette[i][1] - c[1])
    + (xterm_palette[i][2] - c[2]) * (xterm_palette[i][2] - c[2])
    + (xterm_palette[i][3] - c[3]) * (xterm_palette[i][3] - c[3])

\* C23: the index xterm_index_from_rgb returns for a colour has a palette
\* entry at the least squared distance from it over all 256 entries, and is
\* the lowest index with such an entry; the cell's fg is that entry.
NearestIsArgmin ==
    OnePixelRendered =>
        /\ \A j \in 0..255 :
              /\ SquaredDistance(IndexWritten, picture.data[1])
                    <= SquaredDistance(j, picture.data[1])
              /\ j < IndexWritten =>
                    SquaredDistance(j, picture.data[1])
                        > SquaredDistance(IndexWritten, picture.data[1])
        /\ rCells[1].fg = pack_rgb(xterm_palette[IndexWritten][1],
                                   xterm_palette[IndexWritten][2],
                                   xterm_palette[IndexWritten][3])

\* C23 witness: the gray (13,13,13), as far from entry 232 as from entry 233
\* and from no entry nearer, was looked up and 232 written.
ArgminWitness ==
    /\ OnePixelRendered /\ picture.data[1] = <<13, 13, 13>>
    /\ SquaredDistance(232, <<13, 13, 13>>) = SquaredDistance(233, <<13, 13, 13>>)
    /\ IndexWritten = 232

\* The ANSI256 scenario: a finished ANSI256 render of the one-pixel frame of
\* rgb (200,10,10).
RedRendered == OnePixelRendered /\ picture.data[1] = <<200, 10, 10>>

\* C24: the cell's fg is palette entry 160 and the string holds the
\* foreground escape 38;5;160.
RedIsIndex160 ==
    RedRendered =>
        /\ rCells[1].fg = pack_rgb(xterm_palette[160][1], xterm_palette[160][2],
                                   xterm_palette[160][3])
        /\ \E i \in 1..Len(rOut) : rOut[i] = <<"38;5", 160>>

\* C24 as amended: the cell's fg is palette entry 1, the base red
\* (205,0,0), and the string holds the foreground escape 38;5;1 and no other
\* foreground escape.
RedIsIndex1 ==
    RedRendered =>
        /\ rCells[1].fg = pack_rgb(205, 0, 0)
        /\ xterm_palette[1] = <<205, 0, 0>>
        /\ \E i \in 1..Len(rOut) : rOut[i] = <<"38;5", 1>>
        /\ \A i \in 1..Len(rOut) : rOut[i][1] = "38;5" => rOut[i][2] = 1

\* C24 witness: the scenario was rendered, and entry 1 is nearer to its pixel
\* than entry 160.
RedWitness ==
    /\ RedRendered /\ IndexWritten = 1
    /\ SquaredDistance(1, <<200, 10, 10>>) < SquaredDistance(160, <<200, 10, 10>>)

\* A finished render without half blocks of a frame whose pixels all have
\* the colour c.
Uniform(c) ==
    /\ pc["at"] = "rendered" /\ ~rSnap.halfBlock
    /\ \A k \in 1..Len(picture.data) : picture.data[k] = c

\* C25: every cell of the render of an all-black frame has the glyph ' ', the
\* last of the ramp, and the fg 0x000000.
BlackIsBlank ==
    Uniform(<<0, 0, 0>>) =>
        \A k \in 1..Len(rCells) :
            rCells[k].glyph = kRamp[Len(kRamp)] /\ rCells[k].glyph = " " /\ rCells[k].fg = 0

\* C26: every cell of the render of an all-white frame in Gray mode under
\* gamma 1 and contrast 1 has the glyph '@', the first of the ramp, and the
\* fg 0xFFFFFF.
WhiteIsDense ==
    (Uniform(<<255, 255, 255>>) /\ rSnap.mode = "Gray"
        /\ rSnap.gamma = 10 /\ rSnap.contrast = 10) =>
        \A k \in 1..Len(rCells) :
            rCells[k].glyph = kRamp[1] /\ rCells[k].glyph = "@"
            /\ rCells[k].fg = pack_rgb(255, 255, 255)

\* The half-block scenario: a finished half-block render on a grid of one
\* cell of the frame of 2 x 4 pixels whose rows are black, white, black and
\* white.
StripesRendered ==
    /\ pc["at"] = "rendered" /\ rSnap.halfBlock
    /\ rSnap.gridCols = 1 /\ rSnap.gridRows = 1
    /\ picture.width = 2 /\ picture.height = 4
    /\ picture.data = << <<0, 0, 0>>, <<0, 0, 0>>, <<255, 255, 255>>, <<255, 255, 255>>,
                         <<0, 0, 0>>, <<0, 0, 0>>, <<255, 255, 255>>, <<255, 255, 255>> >>

\* C27: the scenario yields one cell with the half-block glyph, fg 0xFFFFFF
\* and bg 0x000000.
StripesWhiteOnBlack ==
    StripesRendered =>
        /\ Len(rCells) = 1 /\ rCells[1].glyph = "half"
        /\ rCells[1].fg = pack_rgb(255, 255, 255) /\ rCells[1].bg = 0

\* C27 as amended: the scenario yields one cell with the half-block glyph and
\* fg = bg = 0x7F7F7F, each half of the frame holding a black and a white
\* row.
StripesGrayOnGray ==
    StripesRendered =>
        /\ Len(rCells) = 1 /\ rCells[1].glyph = "half"
        /\ rCells[1].fg = pack_rgb(127, 127, 127)
        /\ rCells[1].bg = pack_rgb(127, 127, 127)

\* C27 witness: the scenario was rendered in TrueColor mode.
StripesWitness == StripesRendered /\ rSnap.mode = "TrueColor" /\ rCells[1].fg = 8355711

\* C28: in half-block mode the cell (x, y) has the half-block glyph, as bg
\* the fg sampled from the rectangle at (x * cell_w, 2y * cell_h) and as fg
\* the fg sampled from the rectangle at (x * cell_w, (2y + 1) * cell_h), both
\* of cell_w x cell_h pixels with cell_h = max(1, height / (2 * gridRows)).
HalfBlockCells ==
    (pc["at"] = "rendered" /\ rSnap.halfBlock) =>
        /\ Len(rCells) = rSnap.gridCols * rSnap.gridRows
        /\ \A x \in 0..(rSnap.gridCols - 1), y \in 0..(rSnap.gridRows - 1) :
              LET cell_w == Max(1, picture.width \div rSnap.gridCols)
                  cell_h == Max(1, picture.height \div (2 * rSnap.gridRows))
                  top == sampleCell(picture, rSnap, x * cell_w, 2 * y * cell_h,
                                    cell_w, cell_h, y, x)
                  bottom == sampleCell(picture, rSnap, x * cell_w, (2 * y + 1) * cell_h,
                                       cell_w, cell_h, y, x)
              IN  rCells[y * rSnap.gridCols + x + 1]
                    = [glyph |-> "half", fg |-> bottom.fg, bg |-> top.fg]

\* C28 witness: a finished half-block render of two rows and two columns of
\* a frame of four pixel rows, with a cell whose halves differ and a cell
\* that differs from the one above it.
HalfBlockWitness ==
    /\ pc["at"] = "rendered" /\ rSnap.halfBlock
    /\ rSnap.gridCols = 2 /\ rSnap.gridRows = 2 /\ picture.height = 4
    /\ rCells[1].fg # rCells[1].bg
    /\ rCells[3] # rCells[1]

\* C30: the AsciiFrame render returns has cols * rows cells, the cols and
\* rows of the snapshot's grid and the pts of the VideoFrame it was rendered
\* from; the frames queued for the presenter and the frame the presenter
\* holds still have the pts of their VideoFrame.
FrameKeepsPts ==
    /\ pc["at"] = "rendered" =>
          /\ Len(rCells) = ascii.cols * ascii.rows
          /\ ascii.cols = rSnap.gridCols /\ ascii.rows = rSnap.gridRows
          /\ ascii.pts = VideoFrame(hand["at"].id).pts
    /\ \A i \in 1..Len(pAQ) : pAQ[i].pts = VideoFrame(pAQ[i].id).pts
    /\ hand["rt"] # NoFrame => hand["rt"].pts = VideoFrame(hand["rt"].id).pts

\* C30 witness: the presenter is about to present the second frame of the
\* input, rendered on a grid of more than one cell, with its pts.
FramePtsWitness ==
    /\ pc["rt"] = "present" /\ hand["rt"].id = 1 /\ hand["rt"].pts = FrameMs
    /\ ascii.pts = FrameMs /\ Len(rCells) = ascii.cols * ascii.rows /\ Len(rCells) > 1

\* config_ as the i-th key the control worker read left it.
ConfigAfter(i) == IF i < Len(keyLog) THEN keyLog[i + 1].before ELSE rConfig

\* The order of the modes and of the dithers the keys 'c' and 'd' go through.
ModeCycle == <<"Gray", "ANSI256", "TrueColor">>
DitherCycle == <<"Off", "Bayer2", "Bayer4">>
Following(cycle, v) ==
    cycle[((CHOOSE k \in 1..Len(cycle) : cycle[k] = v) % Len(cycle)) + 1]

\* C31: every key 'c' the control worker read took the mode one step along
\* Gray -> ANSI256 -> TrueColor -> Gray and left the rest of the
\* configuration alone, every key 'd' did the same to the dither along
\* Off -> Bayer2 -> Bayer4 -> Off, and three keys 'c' in a row, or three keys
\* 'd' in a row, left the configuration as it was before the first of them.
CyclesOfThree ==
    \A i \in 1..Len(keyLog) :
        LET before == keyLog[i].before
            same(k) == i + 2 <= Len(keyLog)
                       /\ \A j \in i..(i + 2) : keyLog[j].key = k
        IN  /\ keyLog[i].key = "c" =>
                 ConfigAfter(i) = [before EXCEPT !.mode = Following(ModeCycle, before.mode)]
            /\ keyLog[i].key = "d" =>
                 ConfigAfter(i) = [before EXCEPT !.dither = Following(DitherCycle, before.dither)]
            /\ (same("c") \/ same("d")) => ConfigAfter(i + 2) = before

\* C31 witness: the control worker has read three keys 'c', and before them
\* the mode was ANSI256 and gamma and contrast were not the defaults.
CyclesWitness ==
    /\ Len(keyLog) = 3
    /\ \A i \in 1..3 : keyLog[i].key = "c"
    /\ keyLog[1].before.mode = "ANSI256" /\ keyLog[1].before.gamma = 40
    /\ rConfig = keyLog[1].before

\* C32: in every state gamma is within 0.5 .. 4.0 and contrast within
\* 0.2 .. 3.0 (in tenths), whatever the command line gave and whatever
\* renderer keys the control worker has read.
ToneInRange ==
    /\ rConfig.gamma >= 5 /\ rConfig.gamma <= 40
    /\ rConfig.contrast >= 2 /\ rConfig.contrast <= 30

\* diff = target - clock as the presenter measures it in the step that
\* leaves its pacing test: the audio clock when audio is enabled, else the
\* reading of the steady clock the step takes.
MeasuredDiff ==
    Target(hand["rt"]) - (IF audioEnabled THEN PlaybackTime ELSE wall')

\* C33 as stated: on both clocks the presenter sleeps before presenting only
\* when diff exceeds 10 ms, and presents at once, without sleeping, a frame
\* whose diff is between -50 ms and 10 ms.
SleepAboveTenOnBoth ==
    [][(pc["rt"] = "pace" /\ pc'["rt"] # "pace")
       => /\ pc'["rt"] = "sleep" => MeasuredDiff > SleepAboveMs
          /\ (MeasuredDiff >= -DropBelowMs /\ MeasuredDiff <= SleepAboveMs)
             => pc'["rt"] = "present"]_vars

\* C33 amended: on the audio clock the presenter sleeps exactly when diff
\* exceeds 10 ms and presents at once a frame whose diff is between -50 ms
\* and 10 ms; on the wall clock it sleeps exactly when diff exceeds 0 and
\* presents at once a frame whose diff is 0 or less; after a sleep it presents
\* the frame it holds.
SleepRule ==
    [][/\ (pc["rt"] = "pace" /\ pc'["rt"] # "pace")
          => /\ pc'["rt"] = "sleep"
                <=> MeasuredDiff > (IF audioEnabled THEN SleepAboveMs ELSE 0)
             /\ pc'["rt"] = "present"
                <=> IF audioEnabled
                    THEN MeasuredDiff >= -DropBelowMs /\ MeasuredDiff <= SleepAboveMs
                    ELSE MeasuredDiff <= 0
       /\ (pc["rt"] = "sleep" /\ pc'["rt"] # "sleep")
          => pc'["rt"] = "present" /\ hand'["rt"] = hand["rt"]]_vars

\* C33 witness: on the wall clock the presenter sleeps before presenting the
\* second frame, on a diff above 0 and of at most 10 ms.
SleepWitness ==
    /\ pc["rt"] = "sleep" /\ ~audioEnabled /\ hand["rt"].id = 1
    /\ rtDiff > 0 /\ rtDiff <= SleepAboveMs

\* The brightness norm, in 1/NormOne, of the cells of a frame of one pixel
\* under the snapshot's gamma and contrast, and the glyph of the ramp at
\* ramp_idx = round(norm * (L - 1)).
PixelNorm ==
    apply_contrast(apply_gamma(luminance(picture.data[1]), rSnap.gamma), rSnap.contrast)
RampGlyph ==
    kRamp[Clamp((PixelNorm * (Len(kRamp) - 1) + NormOne \div 2) \div NormOne,
                0, Len(kRamp) - 1) + 1]

\* The threshold t of the cell at (row, col), in sixteenths.
CellThreshold(row, col) ==
    LET matrix == bayer_matrix(rSnap.dither)
    IN  IF matrix.size > 1
        THEN matrix.thresholds[(row % matrix.size) * matrix.size
                               + (col % matrix.size) + 1]
        ELSE 0

\* C34: in ANSI256 mode without half blocks the glyph of the cell at (row,
\* col) is '#' when norm + t > 1 and the ramp's glyph otherwise; under Bayer4
\* the cell at (0, 3) has t = 10/16, so that it is '#' exactly when norm >
\* 6/16; under dither Off no cell is highlighted; in Gray and TrueColor every
\* cell has the ramp's glyph.
DitherHighlight ==
    \A k \in 1..Len(rCells) :
        LET row == (k - 1) \div ascii.cols
            col == (k - 1) % ascii.cols
            t == CellThreshold(row, col)
            highlight == 16 * PixelNorm + NormOne * t > 16 * NormOne
        IN  /\ rSnap.mode = "ANSI256" =>
                 rCells[k].glyph = IF highlight THEN "#" ELSE RampGlyph
            /\ (rSnap.mode = "ANSI256" /\ rSnap.dither = "Bayer4" /\ row = 0 /\ col = 3)
                 => /\ t = 10
                    /\ (16 * PixelNorm > 6 * NormOne) => rCells[k].glyph = "#"
                    /\ (16 * PixelNorm <= 6 * NormOne) => rCells[k].glyph = RampGlyph
            /\ (rSnap.mode = "ANSI256" /\ rSnap.dither = "Off") =>
                 rCells[k].glyph = RampGlyph
            /\ rSnap.mode # "ANSI256" => rCells[k].glyph = RampGlyph

\* C34 witness: a finished ANSI256 render under Bayer4 of the pixel (220,
\* 220, 220): the cell at (0, 0) keeps the ramp's glyph, which is no '#', and
\* the cell at (0, 3) is '#'.
DitherWitness ==
    /\ pc["at"] = "rendered"
    /\ rSnap.mode = "ANSI256" /\ rSnap.dither = "Bayer4" /\ ~rSnap.halfBlock
    /\ picture.data[1] = <<220, 220, 220>>
    /\ ascii.cols >= 4
    /\ rCells[1].glyph = RampGlyph /\ RampGlyph # "#"
    /\ rCells[4].glyph = "#"

\* C35: with targetFps > 0 on the audio clock, once a frame has been dropped
\* renderedFrames never increases and nothing is presented again, and every
\* frame that leaves the pacing test is dropped.
DropsForever ==
    [][(audioEnabled /\ targetFps > 0 /\ droppedFrames > 0)
       => /\ renderedFrames' = renderedFrames
          /\ presented' = presented
          /\ (pc["rt"] = "pace" /\ pc'["rt"] # "pace")
             => (droppedFrames' = droppedFrames + 1 /\ pc'["rt"] = "loop")]_vars

\* C35 witness: under --fps on the audio clock both frames of the input were
\* dropped, the second after the first, and none was presented.
DropsWitness ==
    /\ audioEnabled /\ targetFps > 0
    /\ droppedFrames = 2 /\ renderedFrames = 0 /\ presented = <<>>

\* The frames the presenter has taken that neither counter has counted and
\* that it does not hold.
Unaccounted ==
    popped - renderedFrames - droppedFrames - (IF hand["rt"] # NoFrame THEN 1 ELSE 0)

\* The frames taken are those counted, the one in hand if any, and at most
\* one more, discarded by a presenter that ended because running_ was false.
AccountBalance ==
    /\ Unaccounted \in {0, 1}
    /\ Unaccounted = 1 => (~running /\ pc["rt"] = "done")

\* A step adds at most one to one counter and takes nothing from either, and
\* it counts only the frame the presenter holds, which it then lets go.
CountOnce ==
    /\ renderedFrames' - renderedFrames \in {0, 1}
    /\ droppedFrames' - droppedFrames \in {0, 1}
    /\ (renderedFrames' # renderedFrames \/ droppedFrames' # droppedFrames)
       => /\ renderedFrames' + droppedFrames' = renderedFrames + droppedFrames + 1
          /\ hand["rt"] # NoFrame /\ hand'["rt"] = NoFrame
          /\ popped' = popped

\* C36: at every moment the frames the presenter has popped are
\* renderedFrames + droppedFrames, plus the frame in hand if any, plus at
\* most one frame discarded at shutdown; each popped frame is counted once,
\* by one counter, and no counter decreases.
FrameAccounting == []AccountBalance /\ [][CountOnce]_vars

\* C36 witness: on the audio clock the presenter dropped the first frame,
\* took the second and discarded it because the quit key had been read.
AccountWitness ==
    /\ audioEnabled /\ popped = 2 /\ droppedFrames = 1 /\ renderedFrames = 0
    /\ Unaccounted = 1

\* C37: every index blitAscii has written lies inside the buffer writeFrame
\* allocated from the export configuration, whatever --grid and
\* --export-grid are.
BlitInBounds == blitOutside = {}

\* C38: over the calls of open, writeFrame and close a run makes on its
\* exporter, the second close of ~Exporter included, each encoder resource
\* is released at most once and none is dereferenced after its release.
ReleasedOnce ==
    /\ \A r \in Resources : released[r] <= 1
    /\ usedFreed = {}

\* C39: for every cell render has sampled, on grids with more columns or
\* rows than the frame has pixels too and with and without half blocks,
\* every call of sampleCell reads cell_w * cell_h samples, each at
\* coordinates inside [0, width) x [0, height) and at byte offsets inside
\* the width * height * 3 bytes of the frame.
SamplesInFrame ==
    \A k \in 0..(Len(rCells) - 1) :
        \A call \in SampleCalls(picture, rSnap, k) :
            LET coords == SampleCoords(picture.width, picture.height,
                                       call[1], call[2], call[3], call[4])
                cell_w == Max(1, picture.width \div rSnap.gridCols)
                cell_h == Max(1, picture.height \div
                                   (IF rSnap.halfBlock THEN 2 * rSnap.gridRows
                                                       ELSE rSnap.gridRows))
            IN  /\ Cardinality(DOMAIN coords) = cell_w * cell_h
                /\ \A it \in DOMAIN coords :
                      /\ coords[it][1] \in 0..(picture.width - 1)
                      /\ coords[it][2] \in 0..(picture.height - 1)
                      /\ PixelOffsets(picture.width, coords[it])
                           \subseteq 0..(Len(picture.data) * 3 - 1)

\* C39 witness: a finished half-block render of a frame one pixel wide and
\* two high on a grid of two columns and two rows: the second column starts
\* right of the frame and the second row below it.
SamplesWitness ==
    /\ pc["at"] = "rendered" /\ rSnap.halfBlock
    /\ picture.width = 1 /\ picture.height = 2
    /\ rSnap.gridCols = 2 /\ rSnap.gridRows = 2
    /\ Len(rCells) = 4
    /\ \E call \in SampleCalls(picture, rSnap, 3) :
          call[1] >= picture.width /\ call[2] >= picture.height
=============================================================================
